---------------------------- MODULE Spec2Model ----------------------------
(***************************************************************************)
(* Dispatch core of the AI orchestration MCP server: tool-name parsing,    *)
(* the provider registry, the providers' execute pipelines, the input      *)
(* sanitizer, the call-tool handler and the history tracker.               *)
(*                                                                         *)
(* Conventions                                                             *)
(*  - A JavaScript string that the code inspects character by character    *)
(*    (tool names, provider names) is a sequence of one-character strings. *)
(*  - A message is a sequence of tokens: literal fragments are TLA+        *)
(*    strings, interpolated names contribute their characters.             *)
(*  - Temperatures are counted in tenths (3.5 is 35, 2 is 20).             *)
(*  - A thrown error is a record [class, message]; an operator that can    *)
(*    throw returns a record with a field threw.                           *)
(***************************************************************************)
EXTENDS Integers, Sequences, FiniteSets, TLC

VARIABLES
    phase,       \* position of the process: "startup", "serving", "responded"
    config,      \* the loaded configuration (server, providers)
    providers,   \* ProviderRegistry.providers: Map in insertion order
    entries,     \* HistoryTracker.entries
    fileLines,   \* contents of the history file, one element per line
    last,        \* the call-tool request handled last and what it produced
    tools,       \* the descriptors returned by the last list-tools request
    toolName,    \* the tool name handed to parseToolName
    parsed,      \* what parseToolName produced for toolName
    load,        \* the loadFromFile call started by the HistoryTracker constructor
    calls,       \* the entries handed to record since the tracker was constructed or cleared
    written,     \* the entries whose lines the history file holds, in file order
    registrations, \* the providers handed to register, in call order
    initialized, \* what the last initializeAll call met and returned
    executed,    \* the last provider.execute call made on its own, and its result
    validated,   \* the last provider.validateConfig call made on its own, and its result
    recent,      \* the last getRecent call and what it returned
    inflight,    \* the use calls being handled concurrently, by the step each is at
    child,       \* the child process of the executeSafe call in progress
    appendFailed \* whether an append to the history file has failed in this run

vars == <<phase, config, providers, entries, fileLines, last, tools, toolName, parsed,
          load, calls, written, registrations, initialized, executed,
          validated, recent, inflight, child, appendFailed>>

-----------------------------------------------------------------------------
(* JavaScript string primitives *)

Min(a, b) == IF a <= b THEN a ELSE b

Max(a, b) == IF a >= b THEN a ELSE b

Clamp(i, n) == Max(0, Min(i, n))

\* String.prototype.substring: both indices are clamped to [0, length] and
\* swapped when start > end.
substring(s, start, end) ==
    LET a == Clamp(start, Len(s))
        b == Clamp(end, Len(s))
    IN  SubSeq(s, Min(a, b) + 1, Max(a, b))

startsWith(s, p) == Len(s) >= Len(p) /\ SubSeq(s, 1, Len(p)) = p

endsWith(s, p) == Len(s) >= Len(p) /\ SubSeq(s, Len(s) - Len(p) + 1, Len(s)) = p

\* s occurs in t as a contiguous run of tokens (String.prototype.includes)
includes(t, s) ==
    \E i \in 0..(Len(t) - Len(s)) : SubSeq(t, i + 1, i + Len(s)) = s

-----------------------------------------------------------------------------
(* Names *)

use_ == <<"u", "s", "e", "_">>

list_ == <<"l", "i", "s", "t", "_">>

_models == <<"_", "m", "o", "d", "e", "l", "s">>

ollama == <<"o", "l", "l", "a", "m", "a">>

gemini == <<"g", "e", "m", "i", "n", "i">>

openai == <<"o", "p", "e", "n", "a", "i">>

anthropic == <<"a", "n", "t", "h", "r", "o", "p", "i", "c">>

llamaCpp == <<"l", "l", "a", "m", "a", "C", "p", "p">>

\* the name each provider class declares, in the order main registers them
ProviderNames == <<ollama, gemini, openai, anthropic, llamaCpp>>

ProviderNameSet == {ProviderNames[i] : i \in DOMAIN ProviderNames}

-----------------------------------------------------------------------------
(* MCPServer.parseToolName *)

InvalidToolName(name) ==
    [class |-> "Error", message |-> <<"Invalid tool name format: ">> \o name]

parseToolName_offByOne(name) ==
    IF startsWith(name, use_)
    THEN [threw |-> FALSE, provider |-> substring(name, 4, Len(name)), action |-> "use"]
    ELSE IF startsWith(name, list_) /\ endsWith(name, _models)
    THEN [threw |-> FALSE, provider |-> substring(name, 5, Len(name) - 6), action |-> "list"]
    ELSE [threw |-> TRUE, error |-> InvalidToolName(name)]

parseToolName(name) ==
    IF startsWith(name, use_)
    THEN [threw |-> FALSE, provider |-> substring(name, 4, Len(name)), action |-> "use"]
    ELSE IF startsWith(name, list_) /\ endsWith(name, _models)
    THEN [threw |-> FALSE, provider |-> substring(name, 5, Len(name) - 7), action |-> "list"]
    ELSE [threw |-> TRUE, error |-> InvalidToolName(name)]


-----------------------------------------------------------------------------
(* JavaScript values carried by a request *)

\* a string the code only measures and scans for a null byte
Str(n, z) == [type |-> "string", len |-> n, nul |-> z]

Undefined == [type |-> "undefined", len |-> 0, nul |-> FALSE]

\* a model identifier
M(s) == [type |-> "string", s |-> s]

NoModel == [type |-> "undefined", s |-> ""]

\* a temperature, in tenths
T(v) == [type |-> "number", tenths |-> v]

NoTemp == [type |-> "undefined", tenths |-> 0]

\* JavaScript truthiness of a string-or-undefined value
Truthy(v) == v.type = "string" /\ v.len > 0

TruthyModel(m) == m.type = "string" /\ m.s # ""

Contains(list, x) == \E i \in DOMAIN list : list[i] = x

\* Array.prototype.join over a list of atomic tokens
RECURSIVE join(_, _)
join(list, sep) ==
    IF list = <<>> THEN <<>>
    ELSE IF Len(list) = 1 THEN list
    ELSE <<Head(list), sep>> \o join(Tail(list), sep)

-----------------------------------------------------------------------------
(* InputSanitizer *)

DefaultMaxPromptLength == 100000

DefaultMaxSystemLength == 10000

MaxTemperature == 20

ValidationError(msg) == [class |-> "ValidationError", message |-> msg]

Threw(e) == [threw |-> TRUE, error |-> e]

Returned(v) == [threw |-> FALSE, value |-> v]

validatePrompt(prompt, maxLength) ==
    IF prompt.type # "string"
    THEN Threw(ValidationError(<<"Prompt must be a string">>))
    ELSE IF prompt.len = 0
    THEN Threw(ValidationError(<<"Prompt cannot be empty">>))
    ELSE IF prompt.len > maxLength
    THEN Threw(ValidationError(<<"Prompt exceeds maximum length of ",
                                 ToString(maxLength), " characters">>))
    ELSE IF prompt.nul
    THEN Threw(ValidationError(<<"Prompt contains null bytes">>))
    ELSE Returned(prompt)

validateSystem(system, maxLength) ==
    IF system.type = "undefined"
    THEN Returned(Undefined)
    ELSE IF system.len > maxLength
    THEN Threw(ValidationError(<<"System prompt exceeds maximum length of ",
                                 ToString(maxLength), " characters">>))
    ELSE IF system.nul
    THEN Threw(ValidationError(<<"System prompt contains null bytes">>))
    ELSE Returned(system)

validateModel(model, allowedModels) ==
    IF model.type # "string"
    THEN Threw(ValidationError(<<"Model must be a string">>))
    ELSE IF model.s = ""
    THEN Threw(ValidationError(<<"Model name cannot be empty">>))
    ELSE IF ~Contains(allowedModels, model.s)
    THEN Threw(ValidationError(<<"Invalid model: ", model.s, ". Allowed models: ">>
                               \o join(allowedModels, ", ")))
    ELSE Returned(model)

validateTemperature(temperature) ==
    IF temperature.type = "undefined"
    THEN Returned(NoTemp)
    ELSE IF temperature.tenths < 0 \/ temperature.tenths > MaxTemperature
    THEN Threw(ValidationError(<<"Temperature must be between 0 and 2">>))
    ELSE Returned(temperature)

-----------------------------------------------------------------------------
(* Error classes of utils/errors and what the backends can do *)

Error(msg) == [class |-> "Error", message |-> msg]

TypeError(msg) == [class |-> "TypeError", message |-> msg]

ProviderError(msg) == [class |-> "ProviderError", message |-> msg]

NetworkError(msg) == [class |-> "NetworkError", message |-> msg]

TimeoutError(msg) == [class |-> "TimeoutError", message |-> msg]

AuthenticationError(msg) == [class |-> "AuthenticationError", message |-> msg]

\* What a backend does with one generation call:
\*   "text"        it answers with generated text
\*   "empty"       it answers successfully with no text
\*   "timeout"     it is still busy when the configured timeout expires
\*   "status401"   it rejects the credentials
\*   "status500"   it reports a failure of its own
\*   "unreachable" it cannot be reached or started
BackendOutcomes == {"text", "empty", "timeout", "status401", "status500", "unreachable"}

\* What the Ollama server does with a GET /api/tags
ListOutcomes == {"ok", "fail"}

GeneratedText == "generated text"

\* BaseProvider.getTimeout: config.timeout ?? 120000
DefaultTimeout == 120000

getTimeout(cfg, impl) ==
    IF cfg.timeout[impl] = 0 THEN DefaultTimeout ELSE cfg.timeout[impl]

-----------------------------------------------------------------------------
(* The clients *)

OllamaClient_generate(outcome, timeout) ==
    CASE outcome = "text" -> Returned(GeneratedText)
      [] outcome = "empty" -> Threw(ProviderError(<<"Ollama returned empty response">>))
      [] outcome = "timeout" ->
            Threw(TimeoutError(<<"Ollama request timed out after ", ToString(timeout), "ms">>))
      [] outcome = "status401" -> Threw(NetworkError(<<"Ollama API error: ", "401">>))
      [] outcome = "status500" -> Threw(NetworkError(<<"Ollama API error: ", "500">>))
      [] outcome = "unreachable" -> Threw(NetworkError(<<"Failed to connect to Ollama: ", "fetch failed">>))

\* the models the Ollama server reports
OllamaServerModels == <<"qwen2.5:7b">>

OllamaClient_listModels(outcome) ==
    IF outcome = "ok"
    THEN Returned(OllamaServerModels)
    ELSE Threw(NetworkError(<<"Failed to list Ollama models: ", "fetch failed">>))

LlamaCppClient_generate(outcome, timeout) ==
    CASE outcome = "text" -> Returned(GeneratedText)
      [] outcome = "empty" -> Threw(ProviderError(<<"llama.cpp returned empty response">>))
      [] outcome = "timeout" ->
            Threw(TimeoutError(<<"llama.cpp request timed out after ", ToString(timeout), "ms">>))
      [] outcome = "status401" -> Threw(NetworkError(<<"llama.cpp API error: ", "401">>))
      [] outcome = "status500" -> Threw(NetworkError(<<"llama.cpp API error: ", "500">>))
      [] outcome = "unreachable" -> Threw(NetworkError(<<"Failed to connect to llama.cpp: ", "fetch failed">>))

\* CommandExecutor.executeSafe followed by executeAndGetOutput's exit-code check
CommandExecutor_executeAndGetOutput(outcome, timeout) ==
    CASE outcome = "text" -> Returned(GeneratedText)
      [] outcome = "empty" -> Returned("")
      [] outcome = "timeout" ->
            Threw(ProviderError(<<"Command timed out after ", ToString(timeout), "ms">>))
      [] outcome = "status401" -> Threw(ProviderError(<<"Command failed with exit code ", "1">>))
      [] outcome = "status500" -> Threw(ProviderError(<<"Command failed with exit code ", "1">>))
      [] outcome = "unreachable" -> Threw(ProviderError(<<"Failed to execute command: ", "spawn ENOENT">>))

\* output.trim() leaves the generated text and the empty output as they are
GeminiClient_generate(outcome, timeout) ==
    LET r == CommandExecutor_executeAndGetOutput(outcome, timeout)
    IN  IF r.threw
        THEN Threw(ProviderError(<<"Gemini generation failed: ">> \o r.error.message))
        ELSE Returned(r.value)

\* response.choices[0]?.message?.content || ''
OpenAIClient_generate(outcome) ==
    CASE outcome = "text" -> Returned(GeneratedText)
      [] outcome = "empty" -> Returned("")
      [] outcome = "timeout" -> Threw(ProviderError(<<"OpenAI API error: ", "Request timed out.">>))
      [] outcome = "status401" -> Threw(AuthenticationError(<<"Invalid OpenAI API key">>))
      [] outcome = "status500" -> Threw(ProviderError(<<"OpenAI API error: ", "500">>))
      [] outcome = "unreachable" -> Threw(ProviderError(<<"OpenAI API error: ", "Connection error.">>))

\* the catch of listModels answers with the common models
OpenAIClient_listModels(outcome) ==
    IF outcome = "ok"
    THEN <<"gpt-4o", "gpt-4o-mini", "o3-mini">>
    ELSE <<"gpt-4o", "gpt-4o-mini", "gpt-4-turbo", "gpt-4", "gpt-3.5-turbo">>

\* response.content[0]?.text || ''
AnthropicClient_generate(outcome) ==
    CASE outcome = "text" -> Returned(GeneratedText)
      [] outcome = "empty" -> Returned("")
      [] outcome = "timeout" -> Threw(ProviderError(<<"Anthropic API error: ", "Request timed out.">>))
      [] outcome = "status401" -> Threw(AuthenticationError(<<"Invalid Anthropic API key">>))
      [] outcome = "status500" -> Threw(ProviderError(<<"Anthropic API error: ", "500">>))
      [] outcome = "unreachable" -> Threw(ProviderError(<<"Anthropic API error: ", "Connection error.">>))

AnthropicClient_listModels ==
    <<"claude-opus-4-5-20251101", "claude-sonnet-4-20250514", "claude-3-7-sonnet-20250219",
      "claude-3-5-haiku-20241022", "claude-3-5-sonnet-20241022", "claude-3-opus-20240229">>

\* What the llama.cpp server does with a GET /health: it answers 200, it
\* answers with another status, or the fetch fails
HealthOutcomes == {"ok", "notOk", "throws"}

\* CommandExecutor.executeSafe: it resolves with the exit code whatever the
\* code is, and rejects when the child cannot be started or timed out
CommandExecutor_executeSafe(outcome, timeout) ==
    CASE outcome = "text" -> Returned([exitCode |-> 0, stdout |-> GeneratedText])
      [] outcome = "empty" -> Returned([exitCode |-> 0, stdout |-> ""])
      [] outcome = "timeout" ->
            Threw(ProviderError(<<"Command timed out after ", ToString(timeout), "ms">>))
      [] outcome = "status401" -> Returned([exitCode |-> 1, stdout |-> ""])
      [] outcome = "status500" -> Returned([exitCode |-> 1, stdout |-> ""])
      [] outcome = "unreachable" -> Threw(ProviderError(<<"Failed to execute command: ", "spawn ENOENT">>))

\* try { await this.listModels(); return true } catch { return false }
OllamaClient_testConnection(env) == ~OllamaClient_listModels(env.list).threw

\* GET /health answers response.ok; when the fetch fails, a minimal
\* completion is tried
LlamaCppClient_testConnection(env) ==
    CASE env.health = "ok" -> TRUE
      [] env.health = "notOk" -> FALSE
      [] env.health = "throws" -> ~LlamaCppClient_generate(env.gen, DefaultTimeout).threw

\* gemini --version, with a timeout of 5000 ms
GeminiClient_testConnection(env) == ~CommandExecutor_executeSafe(env.gen, 5000).threw

\* listModels catches the failure of models.list and answers with the
\* common models, so the try of testConnection always completes
OpenAIClient_testConnection(env) ==
    LET models == OpenAIClient_listModels(env.list)
    IN  Len(models) >= 0

\* a minimal generation with claude-3-5-haiku-20241022
AnthropicClient_testConnection(env) == ~AnthropicClient_generate(env.gen).threw

-----------------------------------------------------------------------------
(* The providers.  execute and listModels answer with what they return or  *)
(* throw and with net, the backend operations they attempted, in order.    *)

Failed(e, net) == [threw |-> TRUE, error |-> e, net |-> net]

Response(text, model, net) ==
    [threw |-> FALSE, response |-> [text |-> text, model |-> model], net |-> net]

Models(list, net) == [threw |-> FALSE, models |-> list, net |-> net]

\* Object.keys(this.modelAliases)
AliasKeys(aliases) == [i \in DOMAIN aliases |-> aliases[i].alias]

HasAlias(aliases, key) == \E i \in DOMAIN aliases : aliases[i].alias = key

AliasTarget(aliases, key) ==
    aliases[CHOOSE i \in DOMAIN aliases : aliases[i].alias = key].target

\* OllamaProvider.resolveModel: this.modelAliases[modelOrAlias] || modelOrAlias
resolveModel(aliases, modelOrAlias) ==
    IF modelOrAlias.type = "string" /\ HasAlias(aliases, modelOrAlias.s)
       /\ AliasTarget(aliases, modelOrAlias.s) # ""
    THEN M(AliasTarget(aliases, modelOrAlias.s))
    ELSE modelOrAlias

OllamaProvider_listModels(cfg, env) ==
    LET r == OllamaClient_listModels(env.list)
    IN  IF r.threw
        THEN Failed(r.error, <<"ollama.listModels">>)
        ELSE Models(r.value \o AliasKeys(cfg.models), <<"ollama.listModels">>)

OllamaProvider_execute(cfg, request, env) ==
    LET prompt == validatePrompt(request.prompt, DefaultMaxPromptLength)
        system == validateSystem(request.system, DefaultMaxSystemLength)
        temperature == validateTemperature(request.temperature)
        model == resolveModel(cfg.models, request.model)
        availableModels == OllamaProvider_listModels(cfg, env)
        valid == validateModel(model, availableModels.models)
        net == availableModels.net \o <<"ollama.generate">>
        responseText == OllamaClient_generate(env.gen, getTimeout(cfg, "ollama"))
    IN  IF prompt.threw THEN Failed(prompt.error, <<>>)
        ELSE IF system.threw THEN Failed(system.error, <<>>)
        ELSE IF temperature.threw THEN Failed(temperature.error, <<>>)
        ELSE IF availableModels.threw THEN availableModels
        ELSE IF valid.threw THEN Failed(valid.error, availableModels.net)
        ELSE IF responseText.threw THEN Failed(responseText.error, net)
        ELSE Response(responseText.value, model, net)

GeminiProvider_listModels ==
    <<"gemini-2.0-flash-exp", "gemini-1.5-pro", "gemini-1.5-flash", "gemini-1.0-pro">>

\* request.system is prepended to the prompt without being validated
GeminiProvider_execute(cfg, request, env) ==
    LET prompt == validatePrompt(request.prompt, DefaultMaxPromptLength)
        model == IF TruthyModel(request.model) THEN request.model ELSE cfg.defaultModel.gemini
        valid == IF TruthyModel(model)
                 THEN validateModel(model, GeminiProvider_listModels)
                 ELSE Returned(model)
        responseText == GeminiClient_generate(env.gen, getTimeout(cfg, "gemini"))
    IN  IF prompt.threw THEN Failed(prompt.error, <<>>)
        ELSE IF valid.threw THEN Failed(valid.error, <<>>)
        ELSE IF responseText.threw THEN Failed(responseText.error, <<"gemini.generate">>)
        ELSE Response(responseText.value,
                      IF TruthyModel(model) THEN model ELSE M("gemini-2.0-flash-exp"),
                      <<"gemini.generate">>)

OpenAIDefaultModel(cfg) ==
    IF TruthyModel(cfg.defaultModel.openai) THEN cfg.defaultModel.openai ELSE M("gpt-4o-mini")

OpenAIProvider_execute(cfg, request, env) ==
    LET prompt == validatePrompt(request.prompt, DefaultMaxPromptLength)
        system == validateSystem(request.system, DefaultMaxSystemLength)
        temperature == validateTemperature(request.temperature)
        model == IF TruthyModel(request.model) THEN request.model ELSE OpenAIDefaultModel(cfg)
        result == OpenAIClient_generate(env.gen)
    IN  IF prompt.threw THEN Failed(prompt.error, <<>>)
        ELSE IF system.threw THEN Failed(system.error, <<>>)
        ELSE IF temperature.threw THEN Failed(temperature.error, <<>>)
        ELSE IF result.threw THEN Failed(result.error, <<"openai.generate">>)
        ELSE Response(result.value, model, <<"openai.generate">>)

AnthropicDefaultModel(cfg) ==
    IF TruthyModel(cfg.defaultModel.anthropic)
    THEN cfg.defaultModel.anthropic
    ELSE M("claude-3-5-haiku-20241022")

AnthropicProvider_execute(cfg, request, env) ==
    LET prompt == validatePrompt(request.prompt, DefaultMaxPromptLength)
        system == validateSystem(request.system, DefaultMaxSystemLength)
        temperature == validateTemperature(request.temperature)
        model == IF TruthyModel(request.model) THEN request.model ELSE AnthropicDefaultModel(cfg)
        result == AnthropicClient_generate(env.gen)
    IN  IF prompt.threw THEN Failed(prompt.error, <<>>)
        ELSE IF system.threw THEN Failed(system.error, <<>>)
        ELSE IF temperature.threw THEN Failed(temperature.error, <<>>)
        ELSE IF result.threw THEN Failed(result.error, <<"anthropic.generate">>)
        ELSE Response(result.value, model, <<"anthropic.generate">>)

LlamaCppProvider_listModels == <<"llama-cpp-model">>

\* request.system is prepended to the prompt without being validated
LlamaCppProvider_execute(cfg, request, env) ==
    LET prompt == validatePrompt(request.prompt, DefaultMaxPromptLength)
        temperature == validateTemperature(request.temperature)
        responseText == LlamaCppClient_generate(env.gen, getTimeout(cfg, "llamaCpp"))
    IN  IF prompt.threw THEN Failed(prompt.error, <<>>)
        ELSE IF temperature.threw THEN Failed(temperature.error, <<>>)
        ELSE IF responseText.threw THEN Failed(responseText.error, <<"llamaCpp.generate">>)
        ELSE Response(responseText.value,
                      IF TruthyModel(request.model) THEN request.model ELSE M("llama-cpp-model"),
                      <<"llamaCpp.generate">>)

\* provider.execute(request), dispatched on the registered instance
execute(impl, cfg, request, env) ==
    CASE impl = "ollama" -> OllamaProvider_execute(cfg, request, env)
      [] impl = "gemini" -> GeminiProvider_execute(cfg, request, env)
      [] impl = "openai" -> OpenAIProvider_execute(cfg, request, env)
      [] impl = "anthropic" -> AnthropicProvider_execute(cfg, request, env)
      [] impl = "llamaCpp" -> LlamaCppProvider_execute(cfg, request, env)

\* provider.listModels(), dispatched on the registered instance
listModels(impl, cfg, env) ==
    CASE impl = "ollama" -> OllamaProvider_listModels(cfg, env)
      [] impl = "gemini" -> Models(GeminiProvider_listModels, <<>>)
      [] impl = "openai" -> Models(OpenAIClient_listModels(env.list), <<"openai.listModels">>)
      [] impl = "anthropic" -> Models(AnthropicClient_listModels, <<>>)
      [] impl = "llamaCpp" -> Models(LlamaCppProvider_listModels, <<>>)

\* provider.validateConfig(): try { return await this.client.testConnection() }
\* catch { return false }
validateConfig(impl, env) ==
    CASE impl = "ollama" -> Returned(OllamaClient_testConnection(env))
      [] impl = "gemini" -> Returned(GeminiClient_testConnection(env))
      [] impl = "openai" -> Returned(OpenAIClient_testConnection(env))
      [] impl = "anthropic" -> Returned(AnthropicClient_testConnection(env))
      [] impl = "llamaCpp" -> Returned(LlamaCppClient_testConnection(env))

-----------------------------------------------------------------------------
(* ProviderRegistry *)

Impls == <<"ollama", "gemini", "openai", "anthropic", "llamaCpp">>

\* the readonly name of each provider class
NameOf(impl) ==
    CASE impl = "ollama" -> ollama
      [] impl = "gemini" -> gemini
      [] impl = "openai" -> openai
      [] impl = "anthropic" -> anthropic
      [] impl = "llamaCpp" -> llamaCpp

\* a constructed provider: its class, its name, BaseProvider.isEnabled() and
\* BaseProvider.getTimeout()
Provider(impl, cfg) ==
    [impl |-> impl, name |-> NameOf(impl), enabled |-> cfg.enabled[impl],
     timeout |-> getTimeout(cfg, impl)]

hasProvider(map, name) == \E i \in DOMAIN map : map[i].name = name

\* Map.prototype.set keeps the position of a key it already holds
MapSet(map, provider) ==
    IF hasProvider(map, provider.name)
    THEN [i \in DOMAIN map |-> IF map[i].name = provider.name THEN provider ELSE map[i]]
    ELSE Append(map, provider)

\* register without the isEnabled check
register_unchecked(map, provider) == MapSet(map, provider)

register(map, provider) ==
    IF ~provider.enabled THEN map ELSE MapSet(map, provider)

\* getProvider answers undefined for a name the map does not hold
getProvider(map, name) == map[CHOOSE i \in DOMAIN map : map[i].name = name]

getProviderNames(map) == [i \in DOMAIN map |-> map[i].name]

supportsSystemPrompt(impl) == impl \in {"ollama", "openai", "anthropic"}

\* a failed listModels leaves the provider without descriptors
Descriptors_skipOnFailure(provider, cfg, env) ==
    LET r == listModels(provider.impl, cfg, env)
    IN  IF r.threw THEN <<>>
        ELSE << [name |-> use_ \o provider.name,
                 enum |-> r.models,
                 system |-> supportsSystemPrompt(provider.impl),
                 required |-> <<"model", "prompt">>],
                [name |-> list_ \o provider.name \o _models,
                 enum |-> <<>>,
                 system |-> FALSE,
                 required |-> <<>>] >>

\* the two descriptors of one provider; a failed listModels counts as no models
Descriptors(provider, cfg, env) ==
    LET r == listModels(provider.impl, cfg, env)
        models == IF r.threw THEN <<>> ELSE r.models
    IN  << [name |-> use_ \o provider.name,
            enum |-> models,
            system |-> supportsSystemPrompt(provider.impl),
            required |-> <<"model", "prompt">>],
           [name |-> list_ \o provider.name \o _models,
            enum |-> <<>>,
            system |-> FALSE,
            required |-> <<>>] >>

\* env holds, per provider in map order, what its backend does
RECURSIVE generateMCPTools(_, _, _)
generateMCPTools(map, cfg, env) ==
    IF map = <<>> THEN <<>>
    ELSE Descriptors(Head(map), cfg, env[1]) \o generateMCPTools(Tail(map), cfg, Tail(env))

\* what provider.validateConfig() does when initializeAll awaits it: it
\* resolves to true or to false, or it rejects
ProbeOutcomes == {"true", "false", "raises"}

\* initializeAll with the first rejection leaving the loop
RECURSIVE initializeAll_abort(_, _)
initializeAll_abort(map, probes) ==
    IF map = <<>> \/ Head(probes) = "raises" THEN <<>>
    ELSE <<[name |-> Head(map).name, value |-> Head(probes) = "true"]>>
         \o initializeAll_abort(Tail(map), Tail(probes))

\* initializeAll: the results Map in insertion order; probes holds, per
\* provider in map order, what its validateConfig does
RECURSIVE initializeAll(_, _)
initializeAll(map, probes) ==
    IF map = <<>> THEN <<>>
    ELSE LET isValid == IF Head(probes) = "raises" THEN FALSE ELSE Head(probes) = "true"
         IN  <<[name |-> Head(map).name, value |-> isValid]>>
             \o initializeAll(Tail(map), Tail(probes))

-----------------------------------------------------------------------------
(* HistoryTracker *)

DefaultHistoryMaxEntries == 1000

\* config.historyMaxEntries ?? 1000; 0 stands for a value that is not configured
maxEntries(cfg) ==
    IF cfg.historyMaxEntries = 0 THEN DefaultHistoryMaxEntries ELSE cfg.historyMaxEntries

NoResponse == [type |-> "undefined", text |-> ""]

ResponseSnapshot(text) == [type |-> "object", text |-> text]

NoError == [type |-> "undefined", message |-> <<>>]

ErrorMessage(msg) == [type |-> "string", message |-> msg]

\* createEntry handing on the response only
createEntry_responseOnly(provider, model, request, response, error) ==
    [provider |-> provider,
     model |-> model,
     request |-> request,
     response |-> response,
     error |-> NoError]

\* HistoryTracker.createEntry; the readings of the wall clock (timestamp,
\* duration) are left out
createEntry(provider, model, request, response, error) ==
    [provider |-> provider,
     model |-> model,
     request |-> request,
     response |-> response,
     error |-> error]

\* Array.prototype.slice(-n) for n > 0
SliceLast(seq, n) == SubSeq(seq, Max(1, Len(seq) - n + 1), Len(seq))

\* Array.prototype.slice(start) with a start that may be negative: a
\* negative start counts from the end, and -0 is 0
slice(seq, start) ==
    LET from == IF start < 0 THEN Max(Len(seq) + start, 0) ELSE Min(start, Len(seq))
    IN  SubSeq(seq, from + 1, Len(seq))

\* HistoryTracker.getRecent: this.entries.slice(-count)
getRecent(ledger, count) == slice(ledger, 0 - count)

\* JSON.stringify leaves out the properties whose value is undefined
JSONstringify(entry) ==
    [parses |-> TRUE,
     object |->
        [f \in {g \in DOMAIN entry :
                    g \in {"provider", "request"} \/ entry[g].type # "undefined"} |->
            IF f = "request"
            THEN [h \in {g \in DOMAIN entry.request : entry.request[g].type # "undefined"} |->
                        entry.request[h]]
            ELSE entry[f]]]

\* a line that JSON.parse rejects
GarbageLine == [parses |-> FALSE, object |-> <<>>]

\* what fs.appendFile / fs.writeFile do
FileOutcomes == {"ok", "fail"}

AppendError == Error(<<"EACCES: permission denied, open history.jsonl">>)

\* HistoryTracker.appendToFile
appendToFile(cfg, file, entry, outcome) ==
    IF ~cfg.historyFile THEN [threw |-> FALSE, file |-> file]
    ELSE IF outcome = "ok" THEN [threw |-> FALSE, file |-> Append(file, JSONstringify(entry))]
    ELSE [threw |-> TRUE, file |-> file, error |-> AppendError]

\* HistoryTracker.record: the ledger and the file after the call, how many
\* entries it pushed, and whether the returned promise rejects
record(cfg, ledger, file, entry, outcome) ==
    IF ~cfg.historyEnabled
    THEN [threw |-> FALSE, pushed |-> 0, entries |-> ledger, file |-> file]
    ELSE LET pushed == Append(ledger, entry)
             trimmed == IF Len(pushed) > maxEntries(cfg)
                        THEN SliceLast(pushed, maxEntries(cfg))
                        ELSE pushed
             appended == IF cfg.historyFile
                         THEN appendToFile(cfg, file, entry, outcome)
                         ELSE [threw |-> FALSE, file |-> file]
         IN  IF appended.threw
             THEN [threw |-> TRUE, pushed |-> 1, entries |-> trimmed, file |-> appended.file,
                   error |-> appended.error]
             ELSE [threw |-> FALSE, pushed |-> 1, entries |-> trimmed, file |-> appended.file]

\* HistoryTracker.clear: the ledger is emptied, then the file is truncated
\* by writeFile(historyFile, ''); the returned promise rejects when the
\* write fails
clear(cfg, ledger, file, outcome) ==
    IF ~cfg.historyFile THEN [threw |-> FALSE, entries |-> <<>>, file |-> file]
    ELSE IF outcome = "ok" THEN [threw |-> FALSE, entries |-> <<>>, file |-> <<>>]
    ELSE [threw |-> TRUE, entries |-> <<>>, file |-> file, error |-> AppendError]

\* loadFromFile keeping the head of the file: slice(0, maxEntries)
loadFromFile_head(cfg, file) ==
    LET parsedLines == SelectSeq(file, LAMBDA line : line.parses)
        objects == [i \in DOMAIN parsedLines |-> parsedLines[i].object]
    IN  SubSeq(objects, 1, Min(Len(objects), maxEntries(cfg)))

\* HistoryTracker.loadFromFile over a file that can be read
loadFromFile(cfg, file) ==
    LET parsedLines == SelectSeq(file, LAMBDA line : line.parses)
        objects == [i \in DOMAIN parsedLines |-> parsedLines[i].object]
    IN  SliceLast(objects, maxEntries(cfg))

-----------------------------------------------------------------------------
(* MCPServer: the call-tool request handler *)

\* request.params.arguments is optional: a request can carry no arguments
NoArgs ==
    [present |-> FALSE, model |-> NoModel, prompt |-> Undefined,
     system |-> Undefined, temperature |-> NoTemp]

Args(model, prompt, system, temperature) ==
    [present |-> TRUE, model |-> model, prompt |-> prompt,
     system |-> system, temperature |-> temperature]

NotCalled == [status |-> "notcalled", net |-> <<>>]

\* history.record was not reached
NotRecorded == [count |-> 0, threw |-> FALSE]

\* what a provider call ended in, as the handler saw it
Called(r) ==
    IF r.threw
    THEN [status |-> "raised", net |-> r.net, error |-> r.error]
    ELSE IF "response" \in DOMAIN r
    THEN [status |-> "returned", net |-> r.net, response |-> r.response]
    ELSE [status |-> "returned", net |-> r.net, models |-> r.models]

ProviderNotFound(providerName) == Error(<<"Provider not found: ">> \o providerName)

\* what a handler hands back: it either throws error or returns payload;
\* exec and listed tell what became of provider.execute and
\* provider.listModels, recorded tells how many entries history.record
\* pushed to the ledger and whether its promise rejected
Outcome(threw, errorOrPayload, exec, listed, recorded, ledger, file) ==
    [threw |-> threw, result |-> errorOrPayload, exec |-> exec, listed |-> listed,
     recorded |-> recorded, entries |-> ledger, file |-> file]

Payload(text) == [kind |-> "payload", isError |-> FALSE, text |-> text]

ErrorPayload(name, error) ==
    [kind |-> "payload", isError |-> TRUE,
     text |-> <<"Error executing ">> \o name \o <<": ">> \o error.message]

\* an error that leaves the handler and reaches the protocol layer
Raised(error) == [kind |-> "raised", isError |-> TRUE, text |-> error.message]

\* a handleListModels that records the call as handleUse does
handleListModels_recorded(map, cfg, ledger, file, providerName, env) ==
    IF ~hasProvider(map, providerName)
    THEN Outcome(TRUE, ProviderNotFound(providerName), NotCalled, NotCalled, NotRecorded, ledger, file)
    ELSE LET provider == getProvider(map, providerName)
             models == listModels(provider.impl, cfg, env)
             rec == record(cfg, ledger, file,
                           createEntry(providerName, NoModel,
                                       [prompt |-> Undefined, system |-> Undefined],
                                       NoResponse, ErrorMessage(<<"list">>)),
                           env.append)
             pushed == [count |-> rec.pushed, threw |-> FALSE]
         IN  IF models.threw
             THEN Outcome(TRUE, models.error, NotCalled, Called(models), pushed,
                          rec.entries, rec.file)
             ELSE Outcome(FALSE, Payload(join(models.models, "\n")),
                          NotCalled, Called(models), pushed, rec.entries, rec.file)

handleListModels(map, cfg, ledger, file, providerName, env) ==
    IF ~hasProvider(map, providerName)
    THEN Outcome(TRUE, ProviderNotFound(providerName), NotCalled, NotCalled, NotRecorded, ledger, file)
    ELSE LET provider == getProvider(map, providerName)
             models == listModels(provider.impl, cfg, env)
         IN  IF models.threw
             THEN Outcome(TRUE, models.error, NotCalled, Called(models), NotRecorded, ledger, file)
             ELSE Outcome(FALSE, Payload(join(models.models, "\n")),
                          NotCalled, Called(models), NotRecorded, ledger, file)

\* the body of handleUse once the provider is known: try / catch / finally
UseProvider(provider, cfg, ledger, file, providerName, args, env) ==
    LET request == [model |-> args.model, prompt |-> args.prompt,
                    system |-> args.system, temperature |-> args.temperature]
        \* after the finally block: a rejection of history.record comes first
        Settle(r, rec, pushed) ==
            IF rec.threw
            THEN Outcome(TRUE, rec.error, Called(r), NotCalled, pushed, rec.entries, rec.file)
            ELSE IF r.threw
            THEN Outcome(TRUE, r.error, Called(r), NotCalled, pushed, rec.entries, rec.file)
            ELSE Outcome(FALSE, Payload(<<r.response.text>>), Called(r), NotCalled, pushed,
                         rec.entries, rec.file)
        \* the finally block, r being what provider.execute ended in
        Finally(r) ==
            LET historyEntry ==
                    createEntry(providerName, args.model,
                                [prompt |-> args.prompt, system |-> args.system],
                                IF r.threw THEN NoResponse ELSE ResponseSnapshot(r.response.text),
                                IF r.threw THEN ErrorMessage(r.error.message) ELSE NoError)
                Recorded(rec) == Settle(r, rec, [count |-> rec.pushed, threw |-> rec.threw])
            IN  Recorded(record(cfg, ledger, file, historyEntry, env.append))
    IN  Finally(execute(provider.impl, cfg, request, env))

ReadOfUndefined(property) ==
    TypeError(<<"Cannot read properties of undefined (reading '", property, "')">>)

\* handleUse without its check of the lookup: provider.execute is read off
\* undefined inside the try, and the finally block records the attempt
handleUse_unchecked(map, cfg, ledger, file, providerName, args, env) ==
    IF ~args.present
    THEN Outcome(TRUE, ReadOfUndefined("model"), NotCalled, NotCalled, NotRecorded, ledger, file)
    ELSE IF ~hasProvider(map, providerName)
    THEN LET e == ReadOfUndefined("execute")
             historyEntry ==
                 createEntry(providerName, args.model,
                             [prompt |-> args.prompt, system |-> args.system],
                             NoResponse, ErrorMessage(e.message))
             rec == record(cfg, ledger, file, historyEntry, env.append)
         IN  Outcome(TRUE, IF rec.threw THEN rec.error ELSE e, NotCalled, NotCalled,
                     [count |-> rec.pushed, threw |-> rec.threw],
                     rec.entries, rec.file)
    ELSE UseProvider(getProvider(map, providerName), cfg, ledger, file, providerName, args, env)

handleUse(map, cfg, ledger, file, providerName, args, env) ==
    IF ~hasProvider(map, providerName)
    THEN Outcome(TRUE, ProviderNotFound(providerName), NotCalled, NotCalled, NotRecorded, ledger, file)
    ELSE IF ~args.present
    THEN Outcome(TRUE, ReadOfUndefined("model"), NotCalled, NotCalled, NotRecorded, ledger, file)
    ELSE UseProvider(getProvider(map, providerName), cfg, ledger, file, providerName, args, env)

\* the handler with parseToolName ahead of its try block
CallToolRequestHandler_parseOutsideTry(map, cfg, ledger, file, name, args, env) ==
    LET p == parseToolName(name)
        Catch(h) ==
            IF h.threw
            THEN [h EXCEPT !.threw = FALSE, !.result = ErrorPayload(name, h.result)]
            ELSE h
    IN  IF p.threw
        THEN Outcome(TRUE, p.error, NotCalled, NotCalled, NotRecorded, ledger, file)
        ELSE Catch(IF p.action = "list"
                   THEN handleListModels(map, cfg, ledger, file, p.provider, env)
                   ELSE handleUse(map, cfg, ledger, file, p.provider, args, env))

\* the handler registered for CallToolRequestSchema: whatever is thrown
\* inside the try block comes back as an error payload
CallToolRequestHandler(map, cfg, ledger, file, name, args, env) ==
    LET p == parseToolName(name)
        Catch(h) ==
            IF h.threw
            THEN [h EXCEPT !.threw = FALSE, !.result = ErrorPayload(name, h.result)]
            ELSE h
    IN  IF p.threw
        THEN Outcome(FALSE, ErrorPayload(name, p.error), NotCalled, NotCalled, NotRecorded, ledger, file)
        ELSE Catch(IF p.action = "list"
                   THEN handleListModels(map, cfg, ledger, file, p.provider, env)
                   ELSE handleUse(map, cfg, ledger, file, p.provider, args, env))

-----------------------------------------------------------------------------
(* main: the composition root *)

ImplSet == {Impls[i] : i \in DOMAIN Impls}

Flags(S) == [i \in ImplSet |-> i \in S]

\* DEFAULT_CONFIG: nothing enabled, history off
DefaultConfig ==
    [enabled |-> Flags({}),
     apiKey |-> Flags({}),
     models |-> <<>>,
     defaultModel |-> [i \in ImplSet |-> NoModel],
     timeout |-> [i \in ImplSet |-> IF i \in {"ollama", "llamaCpp"} THEN 120000 ELSE 60000],
     historyEnabled |-> FALSE,
     historyFile |-> FALSE,
     historyMaxEntries |-> 1000,
     maxPromptLength |-> 100000]

\* new OpenAIProvider / new AnthropicProvider throw ConfigurationError
\* when neither the configuration nor the environment holds an API key
ConstructorThrows(impl, cfg) == impl \in {"openai", "anthropic"} /\ ~cfg.apiKey[impl]

\* the five blocks of main under one try, so that the first constructor
\* that throws ends the registration
RECURSIVE RegisterAll_oneTry(_, _, _)
RegisterAll_oneTry(map, cfg, impls) ==
    IF impls = <<>> THEN map
    ELSE LET impl == Head(impls)
         IN  IF cfg.enabled[impl] /\ ConstructorThrows(impl, cfg) THEN map
             ELSE RegisterAll_oneTry(IF cfg.enabled[impl]
                                     THEN register(map, Provider(impl, cfg))
                                     ELSE map,
                                     cfg, Tail(impls))

\* the five guarded blocks of main, in order
RECURSIVE RegisterAll(_, _, _)
RegisterAll(map, cfg, impls) ==
    IF impls = <<>> THEN map
    ELSE LET impl == Head(impls)
             next == IF cfg.enabled[impl] /\ ~ConstructorThrows(impl, cfg)
                     THEN register(map, Provider(impl, cfg))
                     ELSE map
         IN  RegisterAll(next, cfg, Tail(impls))

\* new HistoryTracker(config.server), with the load of the file completed
HistoryTracker(cfg, file) ==
    IF cfg.historyEnabled /\ cfg.historyFile THEN loadFromFile(cfg, file) ELSE <<>>

-----------------------------------------------------------------------------
(* The inputs *)

AliasMaps ==
    { <<>>,
      << [alias |-> "fast", target |-> "qwen2.5:7b"] >>,
      << [alias |-> "fast", target |-> "quick"], [alias |-> "quick", target |-> "qwen2.5:7b"] >> }

\* which providers are enabled and which of them find an API key
ProviderConfigs ==
    { [enabled |-> ImplSet, apiKey |-> {"openai", "anthropic"}],
      [enabled |-> {"ollama", "gemini", "openai", "llamaCpp"}, apiKey |-> {}] }

\* server.historyEnabled, whether server.historyFile is set, server.historyMaxEntries
HistoryConfigs ==
    { [enabled |-> FALSE, file |-> FALSE, max |-> 2],
      [enabled |-> TRUE, file |-> FALSE, max |-> 2],
      [enabled |-> TRUE, file |-> TRUE, max |-> 1] }

Configs ==
    { [DefaultConfig EXCEPT !.enabled = Flags(p.enabled), !.apiKey = Flags(p.apiKey),
                            !.models = a,
                            !.historyEnabled = h.enabled, !.historyFile = h.file,
                            !.historyMaxEntries = h.max] :
        p \in ProviderConfigs, a \in AliasMaps, h \in HistoryConfigs }

\* an entry written to the history file by an earlier run of the server
OldEntry ==
    createEntry(ollama, M("qwen2.5:7b"), [prompt |-> Str(2, FALSE), system |-> Undefined],
                ResponseSnapshot(GeneratedText), NoError)

InitialFiles == { <<>>, <<JSONstringify(OldEntry)>> }

ArgModels == {M("fast"), M("qwen2.5:7b"), NoModel}

ArgPrompts == {Str(2, FALSE), Str(0, FALSE)}

ArgSystems == {Undefined, Str(6, FALSE)}

ArgTemperatures == {NoTemp, T(20), T(35)}

ArgSet ==
    {NoArgs} \cup
    {Args(m, p, s, t) : m \in ArgModels, p \in ArgPrompts, s \in ArgSystems, t \in ArgTemperatures}

\* the names the server advertises, and names it does not
CalledNames ==
    {use_ \o n : n \in ProviderNameSet} \cup
    {list_ \o n \o _models : n \in ProviderNameSet} \cup
    {<<"l", "i", "s", "t", "_", "m", "o", "d", "e", "l", "s">>, <<"f", "o", "o">>, use_}

Envs == [list : ListOutcomes, gen : BackendOutcomes, append : FileOutcomes]

\* no provider.execute call was made on its own
NotExecuted == [impl |-> "none"]

\* no provider.validateConfig call was made on its own
NotValidated == [impl |-> "none"]

\* getRecent has not been called
NotAsked == [asked |-> FALSE, count |-> 0, result |-> <<>>]

\* no executeSafe call is in progress
NoChild == [state |-> "none"]

\* initializeAll has not been called
NotInitialized == [ran |-> FALSE, probes |-> <<>>, results |-> <<>>]

\* no loadFromFile call is in flight
NoLoad == [state |-> "none", content |-> <<>>, written |-> <<>>]

NoCall == [name |-> <<>>, args |-> NoArgs,
           result |-> Payload(<<>>), exec |-> NotCalled, listed |-> NotCalled,
           recorded |-> NotRecorded, before |-> <<>>]

-----------------------------------------------------------------------------
(* The server *)

Init ==
    /\ phase = "startup"
    /\ config = DefaultConfig
    /\ providers = <<>>
    /\ entries = <<>>
    /\ fileLines \in InitialFiles
    /\ last = NoCall
    /\ tools = <<>>
    /\ toolName = <<>>
    /\ parsed = [threw |-> FALSE, provider |-> <<>>, action |-> "none"]
    /\ load = NoLoad
    /\ calls = <<>>
    /\ written = <<>>
    /\ registrations = <<>>
    /\ initialized = NotInitialized
    /\ executed = NotExecuted
    /\ validated = NotValidated
    /\ recent = NotAsked
    /\ inflight = <<>>
    /\ child = NoChild
    /\ appendFailed = FALSE

\* main: load the configuration, build the history tracker and the registry
main(cfg) ==
    /\ phase = "startup"
    /\ phase' = "serving"
    /\ config' = cfg
    /\ entries' = HistoryTracker(cfg, fileLines)
    /\ providers' = RegisterAll(<<>>, cfg, Impls)
    /\ UNCHANGED <<fileLines, last, tools, toolName, parsed, load, calls, written, registrations, initialized, executed,
                   validated, recent, inflight, child, appendFailed>>

\* one call-tool request, from its arrival to its response
CallTool(name, args, env) ==
    /\ phase = "serving"
    /\ \E h \in {CallToolRequestHandler(providers, config, entries, fileLines, name, args, env)} :
          /\ last' = [name |-> name, args |-> args,
                      result |-> IF h.threw THEN Raised(h.result) ELSE h.result,
                      exec |-> h.exec, listed |-> h.listed,
                      recorded |-> h.recorded, before |-> entries]
          /\ entries' = h.entries
          /\ fileLines' = h.file
    /\ phase' = "responded"
    /\ UNCHANGED <<config, providers, tools, toolName, parsed, load, calls, written, registrations, initialized, executed,
                   validated, recent, inflight, child, appendFailed>>

Next ==
    \/ \E cfg \in Configs : main(cfg)
    \/ \E name \in CalledNames, args \in ArgSet, env \in Envs : CallTool(name, args, env)

Spec == Init /\ [][Next]_vars

-----------------------------------------------------------------------------
(* Tool listing and tool-name parsing *)

\* tool names put together from the pieces of the naming convention
NameHeads == {use_, list_, <<"l", "i", "s", "t">>, <<"u", "s", "e">>, <<>>}

NameMiddles == ProviderNameSet \cup {<<>>, <<"_">>, <<"x">>}

NameTails == {_models, <<"m", "o", "d", "e", "l", "s">>, <<>>}

ToolNames == {h \o m \o t : h \in NameHeads, m \in NameMiddles, t \in NameTails}

\* the handler of ListToolsRequestSchema; outcome is what the backends do
\* with the listModels calls
ListTools(outcome) ==
    /\ phase = "serving"
    /\ tools' = generateMCPTools(providers, config,
                                 [i \in DOMAIN providers |->
                                     [list |-> outcome, gen |-> "text", append |-> "ok"]])
    /\ UNCHANGED <<phase, config, providers, entries, fileLines, last, toolName, parsed, load, calls, written, registrations, initialized, executed,
                   validated, recent, inflight, child, appendFailed>>

\* parseToolName applied to the name of an incoming call
ParseToolName(name) ==
    /\ phase = "serving"
    /\ toolName' = name
    /\ parsed' = parseToolName(name)
    /\ UNCHANGED <<phase, config, providers, entries, fileLines, last, tools, load, calls, written, registrations, initialized, executed,
                   validated, recent, inflight, child, appendFailed>>

\* the client calls a tool it was told about
ParseListedTool(i) ==
    /\ i \in DOMAIN tools
    /\ ParseToolName(tools[i].name)

NextParse ==
    \/ \E cfg \in Configs : main(cfg)
    \/ \E outcome \in ListOutcomes : ListTools(outcome)
    \/ \E name \in ToolNames : ParseToolName(name)
    \/ \E i \in 1..(2 * Len(Impls)) : ParseListedTool(i)

SpecParse == Init /\ [][NextParse]_vars

-----------------------------------------------------------------------------
(* The history tracker on its own: construction, the load it starts,       *)
(* record, and the restart of the process over the same file               *)

\* record calls per run of the process
MaxRecords == 3

\* lines the history file grows to
MaxFileLines == 3

\* server.historyEnabled, whether server.historyFile is set, server.historyMaxEntries
TrackerConfigs ==
    { [DefaultConfig EXCEPT !.historyEnabled = h.enabled, !.historyFile = h.file,
                            !.historyMaxEntries = h.max] :
        h \in HistoryConfigs \cup {[enabled |-> TRUE, file |-> TRUE, max |-> 2]} }

\* entries as handleUse builds them: one of a call that succeeded, one of a
\* call that failed, one of a failed call that named no model
RecordedEntries ==
    { OldEntry,
      createEntry(gemini, M("gemini-1.5-pro"), [prompt |-> Str(2, FALSE), system |-> Str(6, FALSE)],
                  NoResponse, ErrorMessage(<<"Gemini generation failed: ", "Command timed out after ", "60000", "ms">>)),
      createEntry(openai, NoModel, [prompt |-> Str(0, FALSE), system |-> Undefined],
                  NoResponse, ErrorMessage(<<"Prompt cannot be empty">>)) }

\* what fs.readFile does: it reads the file, finds none, or fails otherwise
ReadOutcomes == {"ok", "ENOENT", "EACCES"}

\* the file as an earlier run or another program left it
InitialDisks ==
    { [lines |-> <<>>, written |-> <<>>],
      [lines |-> <<GarbageLine>>, written |-> <<>>],
      [lines |-> <<JSONstringify(OldEntry), GarbageLine>>, written |-> <<OldEntry>>] }

InitHistory ==
    /\ phase = "startup"
    /\ config = DefaultConfig
    /\ providers = <<>>
    /\ entries = <<>>
    /\ \E d \in InitialDisks : fileLines = d.lines /\ written = d.written
    /\ last = NoCall
    /\ tools = <<>>
    /\ toolName = <<>>
    /\ parsed = [threw |-> FALSE, provider |-> <<>>, action |-> "none"]
    /\ load = NoLoad
    /\ calls = <<>>
    /\ registrations = <<>>
    /\ initialized = NotInitialized
    /\ executed = NotExecuted
    /\ validated = NotValidated
    /\ recent = NotAsked
    /\ inflight = <<>>
    /\ child = NoChild
    /\ appendFailed = FALSE

\* new HistoryTracker(config.server): the constructor starts loadFromFile
\* and returns without awaiting it
NewHistoryTracker(cfg) ==
    /\ phase = "startup"
    /\ phase' = "serving"
    /\ config' = cfg
    /\ entries' = <<>>
    /\ calls' = <<>>
    /\ load' = IF cfg.historyEnabled /\ cfg.historyFile
               THEN [NoLoad EXCEPT !.state = "reading"]
               ELSE NoLoad
    /\ UNCHANGED <<providers, fileLines, last, tools, toolName, parsed, written, registrations, initialized, executed,
                   validated, recent, inflight, child, appendFailed>>

\* loadFromFile: readFile settles
LoadRead(outcome) ==
    /\ load.state = "reading"
    /\ outcome = "ENOENT" => fileLines = <<>>
    /\ load' = CASE outcome = "ok" ->
                      [state |-> "parsing", content |-> fileLines, written |-> written]
                 [] outcome = "ENOENT" -> [NoLoad EXCEPT !.state = "absent"]
                 [] outcome = "EACCES" -> [NoLoad EXCEPT !.state = "failed"]
    /\ UNCHANGED <<phase, config, providers, entries, fileLines, last, tools, toolName,
                   parsed, calls, written, registrations, initialized, executed,
                   validated, recent, inflight, child, appendFailed>>

\* loadFromFile: the continuation after readFile assigns this.entries
LoadDone ==
    /\ load.state = "parsing"
    /\ entries' = loadFromFile(config, load.content)
    /\ load' = [load EXCEPT !.state = "done"]
    /\ UNCHANGED <<phase, config, providers, fileLines, last, tools, toolName, parsed,
                   calls, written, registrations, initialized, executed,
                   validated, recent, inflight, child, appendFailed>>

\* history.record(entry), from the call to the settling of its promise
Record(entry, outcome) ==
    /\ phase \in {"serving", "cleared"}
    /\ Len(calls) < MaxRecords
    /\ Len(fileLines) < MaxFileLines
    /\ \E r \in {record(config, entries, fileLines, entry, outcome)} :
          /\ entries' = r.entries
          /\ fileLines' = r.file
          /\ calls' = IF r.pushed = 1 THEN Append(calls, entry) ELSE calls
          /\ written' = IF Len(r.file) > Len(fileLines) THEN Append(written, entry) ELSE written
          /\ appendFailed' = (appendFailed \/ r.threw)
    /\ UNCHANGED <<phase, config, providers, last, tools, toolName, parsed, load, registrations, initialized, executed,
                   validated, recent, inflight, child>>

\* the process ends and is started again over the same file
Restart ==
    /\ phase = "serving"
    /\ phase' = "startup"
    /\ entries' = <<>>
    /\ calls' = <<>>
    /\ load' = NoLoad
    /\ appendFailed' = FALSE
    /\ UNCHANGED <<config, providers, fileLines, last, tools, toolName, parsed, written, registrations, initialized, executed,
                   validated, recent, inflight, child>>

NextHistory ==
    \/ \E cfg \in TrackerConfigs : NewHistoryTracker(cfg)
    \/ \E outcome \in ReadOutcomes : LoadRead(outcome)
    \/ LoadDone
    \/ \E entry \in RecordedEntries, outcome \in FileOutcomes : Record(entry, outcome)
    \/ Restart

SpecHistory == InitHistory /\ [][NextHistory]_vars

-----------------------------------------------------------------------------
(* The history tracker once the load of the file has completed: record,    *)
(* clear and getRecent                                                     *)

InitLedger ==
    /\ phase = "serving"
    /\ config \in TrackerConfigs
    /\ providers = <<>>
    /\ \E d \in InitialDisks :
          /\ fileLines = d.lines
          /\ written = d.written
          /\ entries = HistoryTracker(config, d.lines)
          /\ load = IF config.historyEnabled /\ config.historyFile
                    THEN [state |-> "done", content |-> d.lines, written |-> d.written]
                    ELSE NoLoad
    /\ last = NoCall
    /\ tools = <<>>
    /\ toolName = <<>>
    /\ parsed = [threw |-> FALSE, provider |-> <<>>, action |-> "none"]
    /\ calls = <<>>
    /\ registrations = <<>>
    /\ initialized = NotInitialized
    /\ executed = NotExecuted
    /\ validated = NotValidated
    /\ recent = NotAsked
    /\ inflight = <<>>
    /\ child = NoChild
    /\ appendFailed = FALSE

\* history.clear(), from the call to the settling of its promise; one clear
\* call per run of the process
Clear(outcome) ==
    /\ phase = "serving"
    /\ phase' = "cleared"
    /\ \E c \in {clear(config, entries, fileLines, outcome)} :
          /\ entries' = c.entries
          /\ fileLines' = c.file
          /\ written' = IF c.file = <<>> THEN <<>> ELSE written
    /\ calls' = <<>>
    /\ UNCHANGED <<config, providers, last, tools, toolName, parsed, load,
                   registrations, initialized, executed, validated, recent, inflight,
                   child, appendFailed>>

\* the counts getRecent is asked for
RecentCounts == {0, 1, 2, 10}

\* history.getRecent(count)
GetRecent(count) ==
    /\ phase \in {"serving", "cleared"}
    /\ phase' = "asked"
    /\ recent' = [asked |-> TRUE, count |-> count, result |-> getRecent(entries, count)]
    /\ UNCHANGED <<config, providers, entries, fileLines, last, tools, toolName, parsed,
                   load, calls, written, registrations, initialized, executed,
                   validated, inflight, child, appendFailed>>

NextLedger ==
    \/ \E entry \in RecordedEntries, outcome \in FileOutcomes : Record(entry, outcome)
    \/ \E outcome \in FileOutcomes : Clear(outcome)
    \/ \E count \in RecentCounts : GetRecent(count)

SpecLedger == InitLedger /\ [][NextLedger]_vars

-----------------------------------------------------------------------------
(* The provider registry on its own: register calls with providers of any  *)
(* configuration, tool generation and initializeAll                        *)

\* register calls made on one registry
MaxRegistrations == 3

\* providers as their constructors build them from a provider configuration
ProviderInstances ==
    { Provider(impl, [DefaultConfig EXCEPT !.enabled[impl] = e, !.timeout[impl] = t]) :
        impl \in {"ollama", "gemini"}, e \in BOOLEAN, t \in {60000, 120000} }

\* new ProviderRegistry(logger)
InitRegistry ==
    /\ phase = "registry"
    /\ config = DefaultConfig
    /\ providers = <<>>
    /\ entries = <<>>
    /\ fileLines = <<>>
    /\ last = NoCall
    /\ tools = <<>>
    /\ toolName = <<>>
    /\ parsed = [threw |-> FALSE, provider |-> <<>>, action |-> "none"]
    /\ load = NoLoad
    /\ calls = <<>>
    /\ written = <<>>
    /\ registrations = <<>>
    /\ initialized = NotInitialized
    /\ executed = NotExecuted
    /\ validated = NotValidated
    /\ recent = NotAsked
    /\ inflight = <<>>
    /\ child = NoChild
    /\ appendFailed = FALSE

Register(provider) ==
    /\ phase = "registry"
    /\ Len(registrations) < MaxRegistrations
    /\ providers' = register(providers, provider)
    /\ registrations' = Append(registrations, provider)
    /\ UNCHANGED <<phase, config, entries, fileLines, last, tools, toolName, parsed,
                   load, calls, written, initialized, executed,
                   validated, recent, inflight, child, appendFailed>>

\* generateMCPTools; outcome is what the backends do with listModels
GenerateTools(outcome) ==
    /\ phase = "registry"
    /\ tools' = generateMCPTools(providers, config,
                                 [i \in DOMAIN providers |->
                                     [list |-> outcome, gen |-> "text", append |-> "ok"]])
    /\ UNCHANGED <<phase, config, providers, entries, fileLines, last, toolName, parsed,
                   load, calls, written, registrations, initialized, executed,
          validated, recent, inflight, child, appendFailed,
                   validated, recent, inflight, child, appendFailed>>

InitializeAll(probes) ==
    /\ phase = "registry"
    /\ initialized' = [ran |-> TRUE, probes |-> probes,
                       results |-> initializeAll(providers, probes)]
    /\ UNCHANGED <<phase, config, providers, entries, fileLines, last, tools, toolName,
                   parsed, load, calls, written, registrations, executed,
                   validated, recent, inflight, child, appendFailed>>

NextRegistry ==
    \/ \E provider \in ProviderInstances : Register(provider)
    \/ \E outcome \in ListOutcomes : GenerateTools(outcome)
    \/ \E probes \in [DOMAIN providers -> ProbeOutcomes] : InitializeAll(probes)

SpecRegistry == InitRegistry /\ [][NextRegistry]_vars

-----------------------------------------------------------------------------
(* provider.execute on its own, for every provider class, under            *)
(* configurations that set security.maxPromptLength                        *)

\* security.maxPromptLength: the default and a smaller configured bound
ExecuteConfigs ==
    { [DefaultConfig EXCEPT !.enabled = Flags(ImplSet), !.apiKey = Flags(ImplSet),
                            !.models = a, !.maxPromptLength = l] :
        a \in AliasMaps, l \in {100000, 50000} }

\* system prompts: none, one at the bound, one past it, one with a null byte
ExecuteSystems == {Undefined, Str(10000, FALSE), Str(10001, FALSE), Str(6, TRUE)}

\* prompts at the two bounds and one past each of them; models that the
\* providers list, an alias, a model that no provider lists, and no model;
\* and requests that differ in the system prompt they carry
ExecuteRequests ==
    { [model |-> m, prompt |-> Str(n, FALSE), system |-> Undefined, temperature |-> NoTemp] :
        m \in {NoModel, M(""), M("fast"), M("no-such-model"), M("qwen2.5:7b"),
               M("gemini-1.5-pro"), M("gpt-4o"), M("claude-3-opus-20240229"),
               M("llama-cpp-model")},
        n \in {2, 50000, 50001, 100000, 100001} }
    \cup
    { [model |-> NoModel, prompt |-> Str(2, FALSE), system |-> y, temperature |-> NoTemp] :
        y \in ExecuteSystems }

InitExecute ==
    /\ phase = "execute"
    /\ config \in ExecuteConfigs
    /\ providers = RegisterAll(<<>>, config, Impls)
    /\ entries = <<>>
    /\ fileLines = <<>>
    /\ last = NoCall
    /\ tools = <<>>
    /\ toolName = <<>>
    /\ parsed = [threw |-> FALSE, provider |-> <<>>, action |-> "none"]
    /\ load = NoLoad
    /\ calls = <<>>
    /\ written = <<>>
    /\ registrations = <<>>
    /\ initialized = NotInitialized
    /\ executed = NotExecuted
    /\ validated = NotValidated
    /\ recent = NotAsked
    /\ inflight = <<>>
    /\ child = NoChild
    /\ appendFailed = FALSE

\* provider.execute(request) on the registered provider of class impl
Execute(impl, request, env) ==
    /\ phase = "execute"
    /\ phase' = "executed"
    /\ executed' = [impl |-> impl, request |-> request, env |-> env,
                    result |-> execute(impl, config, request, env)]
    /\ UNCHANGED <<config, providers, entries, fileLines, last, tools, toolName,
                   parsed, load, calls, written, registrations, initialized,
                   validated, recent, inflight, child, appendFailed>>

\* what the backend of a provider does while it is probed
ProbeEnvs == [list : ListOutcomes, gen : BackendOutcomes, health : HealthOutcomes]

\* provider.validateConfig() on the registered provider of class impl
ValidateConfig(impl, env) ==
    /\ phase = "execute"
    /\ phase' = "validated"
    /\ validated' = [impl |-> impl, env |-> env, result |-> validateConfig(impl, env)]
    /\ UNCHANGED <<config, providers, entries, fileLines, last, tools, toolName,
                   parsed, load, calls, written, registrations, initialized, executed,
                   recent, inflight, child, appendFailed>>

NextExecute ==
    \/ \E impl \in ImplSet, request \in ExecuteRequests, env \in Envs :
          Execute(impl, request, env)
    \/ \E impl \in ImplSet, env \in ProbeEnvs : ValidateConfig(impl, env)

SpecExecute == InitExecute /\ [][NextExecute]_vars

-----------------------------------------------------------------------------
(* Two use calls on one provider handled concurrently: each suspends at    *)
(* await provider.execute and at the await of appendFile inside record,    *)
(* while the load that the HistoryTracker constructor started goes on      *)

\* the use calls in flight
Callers == {1, 2}

ConcurrentConfigs ==
    { [c EXCEPT !.enabled = Flags(ImplSet), !.apiKey = Flags(ImplSet)] : c \in TrackerConfigs }

\* the arguments of the two calls; their prompts tell them apart
ConcurrentArgs ==
    [i \in Callers |-> Args(M("qwen2.5:7b"), Str(i + 1, FALSE), Undefined, NoTemp)]

\* a use call that has arrived and has not begun
Arrived(impl, args) ==
    [stage |-> "arrived", impl |-> impl, args |-> args, exec |-> NotCalled,
     finished |-> 0, entry |-> <<>>, threw |-> FALSE]

InitConcurrent ==
    /\ phase = "concurrent"
    /\ config \in ConcurrentConfigs
    /\ providers = RegisterAll(<<>>, config, Impls)
    /\ entries = <<>>
    /\ \E d \in InitialDisks : fileLines = d.lines /\ written = d.written
    /\ last = NoCall
    /\ tools = <<>>
    /\ toolName = <<>>
    /\ parsed = [threw |-> FALSE, provider |-> <<>>, action |-> "none"]
    /\ load = IF config.historyEnabled /\ config.historyFile
              THEN [NoLoad EXCEPT !.state = "reading"]
              ELSE NoLoad
    /\ calls = <<>>
    /\ registrations = <<>>
    /\ initialized = NotInitialized
    /\ executed = NotExecuted
    /\ validated = NotValidated
    /\ recent = NotAsked
    /\ \E impl \in {"ollama", "gemini"} :
          inflight = [i \in Callers |-> Arrived(impl, ConcurrentArgs[i])]
    /\ child = NoChild
    /\ appendFailed = FALSE

\* handleUse up to its first await: the provider is looked up and
\* provider.execute is called
BeginUse(i) ==
    /\ inflight[i].stage = "arrived"
    /\ hasProvider(providers, NameOf(inflight[i].impl))
    /\ inflight' = [inflight EXCEPT ![i].stage = "executing"]
    /\ UNCHANGED <<entries, fileLines, calls, appendFailed>>
    /\ UNCHANGED <<phase, config, providers, last, tools, toolName, parsed, load, written,
                   registrations, initialized, executed, validated, recent, child>>

\* provider.execute settles; the finally block builds the entry and calls
\* history.record, which pushes and trims before it awaits appendFile
ExecuteSettles(i, env) ==
    /\ inflight[i].stage = "executing"
    /\ LET c == inflight[i]
           request == [model |-> c.args.model, prompt |-> c.args.prompt,
                       system |-> c.args.system, temperature |-> c.args.temperature]
           Finally(r) ==
               LET historyEntry ==
                       createEntry(NameOf(c.impl), c.args.model,
                                   [prompt |-> c.args.prompt, system |-> c.args.system],
                                   IF r.threw THEN NoResponse ELSE ResponseSnapshot(r.response.text),
                                   IF r.threw THEN ErrorMessage(r.error.message) ELSE NoError)
                   Pushed(rec) ==
                       /\ entries' = rec.entries
                       /\ calls' = IF rec.pushed = 1 THEN Append(calls, historyEntry) ELSE calls
                       /\ inflight' =
                             [inflight EXCEPT
                                ![i].stage = IF config.historyEnabled /\ config.historyFile
                                             THEN "appending" ELSE "done",
                                ![i].exec = Called(r),
                                ![i].finished = 1 + Cardinality({j \in Callers : inflight[j].finished > 0}),
                                ![i].entry = historyEntry,
                                ![i].threw = r.threw]
               IN  Pushed(record(config, entries, fileLines, historyEntry, "ok"))
       IN  Finally(execute(c.impl, config, request, env))
    /\ UNCHANGED <<fileLines, appendFailed>>
    /\ UNCHANGED <<phase, config, providers, last, tools, toolName, parsed, load, written,
                   registrations, initialized, executed, validated, recent, child>>

\* appendFile settles and with it history.record and handleUse
AppendSettles(i, outcome) ==
    /\ inflight[i].stage = "appending"
    /\ \E a \in {appendToFile(config, fileLines, inflight[i].entry, outcome)} :
          /\ fileLines' = a.file
          /\ written' = IF a.threw THEN written ELSE Append(written, inflight[i].entry)
          /\ appendFailed' = (appendFailed \/ a.threw)
          /\ inflight' = [inflight EXCEPT ![i].stage = "done",
                                           ![i].threw = (inflight[i].threw \/ a.threw)]
    /\ UNCHANGED <<entries, calls>>
    /\ UNCHANGED <<phase, config, providers, last, tools, toolName, parsed, load,
                   registrations, initialized, executed, validated, recent, child>>

NextConcurrent ==
    \/ \E i \in Callers : BeginUse(i)
    \/ \E i \in Callers, env \in Envs : ExecuteSettles(i, env)
    \/ \E i \in Callers, outcome \in FileOutcomes : AppendSettles(i, outcome)
    \/ \E outcome \in ReadOutcomes : LoadRead(outcome)
    \/ LoadDone

SpecConcurrent == InitConcurrent /\ [][NextConcurrent]_vars

-----------------------------------------------------------------------------
(* CommandExecutor.executeSafe: the child process, the timeout timer, the  *)
(* timer of the forced kill, and the promise that executeSafe returns      *)

\* options.timeout as the callers pass it
ExecutorTimeouts == {5000, 60000, 120000}

\* what happens to the input written to the child's stdin
StdinOutcomes == {"none", "written", "throws"}

\* the promise is settled once: a later resolve or reject changes nothing
SettlePromise(c, how, message) ==
    IF c.promise = "pending"
    THEN [c EXCEPT !.promise = how, !.message = message]
    ELSE c

\* subprocess.kill(signal): a child that has exited gets no signal; a child
\* that runs receives it, which sets subprocess.killed, and ends unless the
\* signal is a SIGTERM that it ignores
kill(c, signal) ==
    IF c.state # "running" THEN c
    ELSE IF signal = "SIGTERM" /\ c.ignoresSigterm
    THEN [c EXCEPT !.killed = TRUE]
    ELSE [c EXCEPT !.killed = TRUE, !.state = "exited", !.exitCode = -1]

InitExecutor ==
    /\ phase = "executor"
    /\ config = DefaultConfig
    /\ providers = <<>>
    /\ entries = <<>>
    /\ fileLines = <<>>
    /\ last = NoCall
    /\ tools = <<>>
    /\ toolName = <<>>
    /\ parsed = [threw |-> FALSE, provider |-> <<>>, action |-> "none"]
    /\ load = NoLoad
    /\ calls = <<>>
    /\ written = <<>>
    /\ registrations = <<>>
    /\ initialized = NotInitialized
    /\ executed = NotExecuted
    /\ validated = NotValidated
    /\ recent = NotAsked
    /\ inflight = <<>>
    /\ child = NoChild
    /\ appendFailed = FALSE

\* executeSafe up to the return of the promise: spawn, the timeout timer is
\* set, the handlers are attached and the input is written
Spawn(timeout, ignoresSigterm, stdin) ==
    /\ child = NoChild
    /\ child' = LET c == [state |-> "running", timeout |-> timeout,
                          ignoresSigterm |-> ignoresSigterm, timedOut |-> FALSE,
                          killed |-> FALSE, exitCode |-> 0, timer |-> "set",
                          killTimer |-> "none", promise |-> "pending", message |-> <<>>]
              IN  IF stdin = "throws"
                  THEN SettlePromise([c EXCEPT !.timer = "cleared"], "rejected",
                              <<"Failed to write to stdin: ", "EPIPE">>)
                  ELSE c
    /\ UNCHANGED <<phase, config, providers, entries, fileLines, last, tools, toolName,
                   parsed, load, calls, written, registrations, initialized, executed,
                   validated, recent, inflight, appendFailed>>

\* the 'error' event: the child could not be started
SpawnError ==
    /\ child.state = "running"
    /\ ~child.timedOut /\ ~child.killed
    /\ child' = SettlePromise([child EXCEPT !.state = "closed", !.timer = "cleared"], "rejected",
                        <<"Failed to execute command: ", "spawn ENOENT">>)
    /\ UNCHANGED <<phase, config, providers, entries, fileLines, last, tools, toolName,
                   parsed, load, calls, written, registrations, initialized, executed,
                   validated, recent, inflight, appendFailed>>

\* the child ends by itself
ChildExits(code) ==
    /\ child.state = "running"
    /\ child' = [child EXCEPT !.state = "exited", !.exitCode = code]
    /\ UNCHANGED <<phase, config, providers, entries, fileLines, last, tools, toolName,
                   parsed, load, calls, written, registrations, initialized, executed,
                   validated, recent, inflight, appendFailed>>

\* a 'data' event takes stdout or stderr past maxBuffer
BufferOverflow ==
    /\ child.state = "running"
    /\ child' = SettlePromise(kill(child, "SIGTERM"), "rejected",
                        <<"Output exceeded maximum buffer size of ", "10485760", " bytes">>)
    /\ UNCHANGED <<phase, config, providers, entries, fileLines, last, tools, toolName,
                   parsed, load, calls, written, registrations, initialized, executed,
                   validated, recent, inflight, appendFailed>>

\* the timeout timer fires: timedOut is set, the child is sent SIGTERM and
\* the timer of the forced kill is set
TimeoutFires ==
    /\ child.state # "none"
    /\ child.timer = "set"
    /\ child' = [kill(child, "SIGTERM") EXCEPT !.timedOut = TRUE, !.timer = "fired",
                                               !.killTimer = "set"]
    /\ UNCHANGED <<phase, config, providers, entries, fileLines, last, tools, toolName,
                   parsed, load, calls, written, registrations, initialized, executed,
                   validated, recent, inflight, appendFailed>>

\* five seconds later: if (!child.killed) child.kill('SIGKILL')
ForcedKill ==
    /\ child.state # "none"
    /\ child.killTimer = "set"
    /\ child' = [(IF ~child.killed THEN kill(child, "SIGKILL") ELSE child)
                    EXCEPT !.killTimer = "fired"]
    /\ UNCHANGED <<phase, config, providers, entries, fileLines, last, tools, toolName,
                   parsed, load, calls, written, registrations, initialized, executed,
                   validated, recent, inflight, appendFailed>>

\* the 'close' event of a child that has ended
Close ==
    /\ child.state = "exited"
    /\ child' = LET c == [child EXCEPT !.state = "closed",
                                       !.timer = IF child.timer = "set" THEN "cleared"
                                                 ELSE child.timer]
              IN  IF c.timedOut
                  THEN SettlePromise(c, "rejected",
                              <<"Command timed out after ", ToString(c.timeout), "ms">>)
                  ELSE SettlePromise(c, "resolved", <<>>)
    /\ UNCHANGED <<phase, config, providers, entries, fileLines, last, tools, toolName,
                   parsed, load, calls, written, registrations, initialized, executed,
                   validated, recent, inflight, appendFailed>>

NextExecutor ==
    \/ \E timeout \in ExecutorTimeouts, ignoresSigterm \in BOOLEAN, stdin \in StdinOutcomes :
          Spawn(timeout, ignoresSigterm, stdin)
    \/ SpawnError
    \/ \E code \in {0, 1} : ChildExits(code)
    \/ BufferOverflow
    \/ TimeoutFires
    \/ ForcedKill
    \/ Close

SpecExecutor == InitExecutor /\ [][NextExecutor]_vars

\* the event loop runs the timers that are due and delivers the events of a
\* child that has ended; a child that runs need not end
SpecExecutorFair ==
    SpecExecutor /\ WF_vars(TimeoutFires) /\ WF_vars(ForcedKill) /\ WF_vars(Close)

-----------------------------------------------------------------------------
(* Startup with the probes of initializeAll, followed by tool listing and  *)
(* one tool call                                                           *)

\* every provider enabled and constructible, or some enabled without a key
StartupConfigs ==
    { [DefaultConfig EXCEPT !.enabled = Flags(p.enabled), !.apiKey = Flags(p.apiKey),
                            !.historyEnabled = TRUE] :
        p \in ProviderConfigs }

\* a main that drops from the registry the providers whose probe failed
Startup_dropFailed(cfg, probes) ==
    /\ phase = "startup"
    /\ phase' = "serving"
    /\ config' = cfg
    /\ entries' = HistoryTracker(cfg, fileLines)
    /\ \E map \in {RegisterAll(<<>>, cfg, Impls)} :
          /\ DOMAIN probes = DOMAIN map
          /\ initialized' = [ran |-> TRUE, probes |-> probes,
                             results |-> initializeAll(map, probes)]
          /\ providers' = SelectSeq(map, LAMBDA p :
                                \E k \in DOMAIN map : map[k] = p /\ probes[k] = "true")
    /\ UNCHANGED <<fileLines, last, tools, toolName, parsed, load, calls, written,
                   registrations, executed, validated, recent, inflight, child,
                   appendFailed>>

\* main: the providers are registered, initializeAll probes them and its
\* results are logged, then the server is started
Startup(cfg, probes) ==
    /\ phase = "startup"
    /\ phase' = "serving"
    /\ config' = cfg
    /\ entries' = HistoryTracker(cfg, fileLines)
    /\ \E map \in {RegisterAll(<<>>, cfg, Impls)} :
          /\ DOMAIN probes = DOMAIN map
          /\ initialized' = [ran |-> TRUE, probes |-> probes,
                             results |-> initializeAll(map, probes)]
          /\ providers' = map
    /\ UNCHANGED <<fileLines, last, tools, toolName, parsed, load, calls, written,
                   registrations, executed, validated, recent, inflight, child,
                   appendFailed>>

\* the calls made on the started server
StartupCalls ==
    {use_ \o n : n \in ProviderNameSet} \cup {list_ \o n \o _models : n \in ProviderNameSet}

StartupArgs == {NoArgs, Args(M("qwen2.5:7b"), Str(2, FALSE), Undefined, NoTemp)}

StartupEnvs ==
    { [list |-> "ok", gen |-> "text", append |-> "ok"],
      [list |-> "fail", gen |-> "unreachable", append |-> "ok"] }

NextStartup ==
    \/ \E cfg \in StartupConfigs :
          \E probes \in UNION {[1..n -> ProbeOutcomes] : n \in 0..Len(Impls)} :
             Startup(cfg, probes)
    \/ \E outcome \in ListOutcomes : ListTools(outcome)
    \/ \E name \in StartupCalls, args \in StartupArgs, env \in StartupEnvs :
          CallTool(name, args, env)

SpecStartup == Init /\ [][NextStartup]_vars

-----------------------------------------------------------------------------
(* Properties of a dispatched call *)

Responded == phase = "responded"

Registered(n) == \E i \in DOMAIN providers : providers[i].name = n

\* the last call was use_<n> for a registered provider n
UseOfRegistered == \E n \in ProviderNameSet : Registered(n) /\ last.name = use_ \o n

\* the name has the shape use_<name>
UseShape(name) ==
    /\ Len(name) >= Len(use_)
    /\ \A i \in DOMAIN use_ : name[i] = use_[i]

\* the name has the shape list_<name>_models: prefix and suffix do not overlap
ListShape(name) ==
    /\ Len(name) >= Len(list_) + Len(_models)
    /\ \A i \in DOMAIN list_ : name[i] = list_[i]
    /\ \A i \in DOMAIN _models : name[Len(name) - Len(_models) + i] = _models[i]

SuccessPayload(text) ==
    /\ last.result.kind = "payload"
    /\ ~last.result.isError
    /\ last.result.text = text

ErrorPayloadWith(message) ==
    /\ last.result.kind = "payload"
    /\ last.result.isError
    /\ includes(last.result.text, message)

\* C1: every call-tool request ends in a payload, never in a raised error;
\* when the provider lookup, execute (validation included) or listModels
\* raised, the payload has isError set and its text carries that error's
\* message; when execute or listModels returned, the payload carries the
\* result text and no error flag.
C1_EveryCallEndsInStructuredResponse ==
    Responded =>
        /\ last.result.kind = "payload"
        /\ last.exec.status = "raised" => ErrorPayloadWith(last.exec.error.message)
        /\ last.listed.status = "raised" => ErrorPayloadWith(last.listed.error.message)
        /\ last.exec.status = "returned" => SuccessPayload(<<last.exec.response.text>>)
        /\ last.listed.status = "returned" => SuccessPayload(join(last.listed.models, "\n"))
        /\ \A n \in ProviderNameSet :
              /\ ~Registered(n)
              /\ last.name \in {use_ \o n, list_ \o n \o _models}
              => ErrorPayloadWith(<<"Provider not found: ">> \o n)

\* C2: when the append to the history file fails during a use call, the
\* caller still gets the outcome of execute: the success payload with the
\* generated text if execute returned, execute's error message if it raised.
C2_PersistenceFailureKeepsOutcome ==
    Responded /\ last.recorded.threw =>
        /\ last.exec.status = "returned" => SuccessPayload(<<last.exec.response.text>>)
        /\ last.exec.status = "raised" => ErrorPayloadWith(last.exec.error.message)

\* C3: with history enabled, every use call that resolves to a registered
\* provider pushes exactly one entry to the ledger.
C3_ExactlyOneEntryPerUse ==
    Responded /\ config.historyEnabled /\ UseOfRegistered =>
        /\ last.recorded.count = 1
        /\ Len(entries) = Min(Len(last.before) + 1, maxEntries(config))

\* C4: for every provider, a use call with a temperature outside [0, 2] is
\* rejected with a validation error before any backend call is attempted.
C4_TemperatureRejectedBeforeBackend ==
    /\ Responded /\ UseOfRegistered /\ last.args.present
    /\ last.args.temperature.type = "number"
    /\ (last.args.temperature.tenths < 0 \/ last.args.temperature.tenths > 20)
    => /\ last.result.isError
       /\ last.exec.status = "raised"
       /\ last.exec.error.class = "ValidationError"
       /\ last.exec.net = <<>>

\* the identifier an alias finally stands for
RECURSIVE BackingModel(_, _, _)
BackingModel(aliases, s, fuel) ==
    IF fuel = 0 \/ ~HasAlias(aliases, s) THEN s
    ELSE BackingModel(aliases, AliasTarget(aliases, s), fuel - 1)

\* C5: when a use_ollama call names an alias of the configured alias map,
\* the entry recorded for the call carries the backing model identifier,
\* not the alias.
C5_HistoryCarriesResolvedModel ==
    /\ Responded /\ Registered(ollama) /\ last.name = use_ \o ollama
    /\ last.exec.status = "returned" /\ last.recorded.count = 1
    /\ last.args.model.type = "string" /\ HasAlias(config.models, last.args.model.s)
    => entries[Len(entries)].model =
          M(BackingModel(config.models, last.args.model.s, Len(config.models)))

\* C6: the model field of a Response returned by execute is never a key of
\* the provider's alias map, whatever the alias map and the model supplied.
C6_ResponseModelNeverAlias ==
    /\ Responded /\ last.name = use_ \o ollama
    /\ last.exec.status = "returned"
    => ~HasAlias(config.models, last.exec.response.model.s)

C10_UnregisteredProviderNotFound ==
    \A n \in ProviderNameSet \cup {<<>>} :
        /\ Responded /\ ~Registered(n)
        /\ last.name \in {use_ \o n, list_ \o n \o _models}
        => /\ ErrorPayloadWith(<<"Provider not found: ">> \o n)
           /\ last.exec.status = "notcalled" /\ last.listed.status = "notcalled"
           /\ last.exec.net = <<>> /\ last.listed.net = <<>>
           /\ last.recorded.count = 0
           /\ entries = last.before

C10_Witness ==
    /\ Responded
    /\ config.historyEnabled
    /\ ~Registered(openai)
    /\ last.name = use_ \o openai
    /\ last.args.present
    /\ includes(last.result.text, <<"Provider not found: ">> \o openai)

\* the entry the last call pushed to the ledger
LastEntry == entries[Len(entries)]

\* C11: the entry recorded for a use call has exactly one of response and
\* error: the response snapshot with the generated text when execute
\* returned, the raised error's message with no response when it raised.
C11_EntryHasResponseXorError ==
    Responded /\ last.recorded.count = 1 =>
        /\ (LastEntry.response.type = "object") # (LastEntry.error.type = "string")
        /\ last.exec.status = "returned" =>
              /\ LastEntry.response = ResponseSnapshot(last.exec.response.text)
              /\ LastEntry.error = NoError
        /\ last.exec.status = "raised" =>
              /\ LastEntry.response = NoResponse
              /\ LastEntry.error = ErrorMessage(last.exec.error.message)
        /\ last.exec.status # "notcalled"

\* Scenario D: ollama with its 120000 ms timeout, the backend still busy
C11_Witness ==
    /\ Responded /\ last.recorded.count = 1
    /\ last.name = use_ \o ollama
    /\ last.exec.status = "raised"
    /\ last.exec.error.class = "TimeoutError"
    /\ LastEntry.response = NoResponse
    /\ LastEntry.error.message = <<"Ollama request timed out after ", "120000", "ms">>

-----------------------------------------------------------------------------
(* Properties of the history tracker *)

\* reading a property of an object: undefined when the object has none
Get(object, f) == IF f \in DOMAIN object THEN object[f] ELSE [type |-> "undefined"]

SameValue(a, b) ==
    IF a.type = "undefined" \/ b.type = "undefined" THEN a.type = b.type ELSE a = b

\* two entries are field-for-field equal
SameEntry(x, e) ==
    /\ x.provider = e.provider
    /\ \A f \in {"model", "response", "error"} : SameValue(Get(x, f), Get(e, f))
    /\ \A f \in {"prompt", "system"} : SameValue(Get(x.request, f), Get(e.request, f))

SameEntries(xs, es) ==
    /\ Len(xs) = Len(es)
    /\ \A i \in DOMAIN xs : SameEntry(xs[i], es[i])

\* C12: after any sequence of record calls the ledger holds at most
\* historyMaxEntries entries, and the entries recorded last are its tail,
\* in recording order: none of them is dropped or moved.
C12_LedgerIsBoundedTailOfRecorded ==
    LET n == Min(Len(calls), maxEntries(config))
    IN  /\ Len(entries) <= maxEntries(config)
        /\ Len(entries) >= n
        /\ SameEntries(SliceLast(entries, n), SliceLast(calls, n))

\* C13: when the load of the history file completes, the ledger is the
\* last min(N, k) of the k entries recorded to the file, in file order and
\* field-for-field equal to what was recorded; lines that do not parse are
\* skipped.
C13_RehydrationRoundTrip ==
    [][load.state = "parsing" /\ load'.state = "done" =>
           SameEntries(entries', SliceLast(load.written, maxEntries(config')))]_vars

\* a file of two entries and a line that does not parse, loaded with N = 1
C13_Witness ==
    /\ load.state = "done"
    /\ calls = <<>>
    /\ maxEntries(config) = 1
    /\ Len(load.written) = 2
    /\ \E i \in DOMAIN load.content : ~load.content[i].parses
    /\ load.written[2].error.type = "string"
    /\ Len(entries) = 1
    /\ "response" \notin DOMAIN entries[1]

-----------------------------------------------------------------------------
(* Properties of the provider registry *)

\* the register calls that handed over an enabled provider named n
EnabledRegistrations(n) ==
    {k \in DOMAIN registrations : registrations[k].enabled /\ registrations[k].name = n}

Latest(ks) == CHOOSE k \in ks : \A j \in ks : j <= k

ToolsOf(n) == {i \in DOMAIN tools : tools[i].name \in {use_ \o n, list_ \o n \o _models}}

\* C14: after any sequence of register calls the registry holds no disabled
\* provider: a name under which only disabled providers were registered is
\* not in getProviderNames, is not found by getProvider and has no
\* descriptor; a name registered more than once is held once, with the
\* enabled provider registered last.
C14_RegistryHoldsLastEnabledProvider ==
    /\ \A i \in DOMAIN providers : providers[i].enabled
    /\ \A n \in ProviderNameSet :
          IF EnabledRegistrations(n) = {}
          THEN /\ ~hasProvider(providers, n)
               /\ \A i \in DOMAIN getProviderNames(providers) : getProviderNames(providers)[i] # n
               /\ ToolsOf(n) = {}
          ELSE /\ hasProvider(providers, n)
               /\ getProvider(providers, n) = registrations[Latest(EnabledRegistrations(n))]
               /\ Cardinality({i \in DOMAIN providers : providers[i].name = n}) = 1
    /\ Len(providers) = Cardinality({n \in ProviderNameSet : EnabledRegistrations(n) # {}})

\* ollama registered twice with different configurations, gemini disabled
C14_Witness ==
    /\ Len(registrations) = 3
    /\ registrations[1].name = ollama /\ registrations[1].enabled
    /\ registrations[2].name = gemini /\ ~registrations[2].enabled
    /\ registrations[3].name = ollama /\ registrations[3].enabled
    /\ registrations[3].timeout # registrations[1].timeout
    /\ Len(providers) = 1
    /\ providers[1] = registrations[3]
    /\ Len(tools) = 2

\* C16: initializeAll returns one entry per registered provider, in
\* registry order; the entry is true when validateConfig resolved to true
\* and false when it resolved to false or rejected, and a rejection does
\* not keep the later providers from being probed.
C16_InitializeAllProbesEveryProvider ==
    [][initialized' # initialized =>
          /\ Len(initialized'.results) = Len(providers)
          /\ \A k \in DOMAIN providers :
                /\ initialized'.results[k].name = providers[k].name
                /\ initialized'.results[k].value = (initialized'.probes[k] = "true")]_vars

\* the probe of the first provider rejects, the probe of the second succeeds
C16_Witness ==
    /\ initialized.ran
    /\ Len(providers) = 2
    /\ Len(initialized.results) = 2
    /\ initialized.probes[1] = "raises"
    /\ initialized.probes[2] = "true"
    /\ initialized.results[1] = [name |-> providers[1].name, value |-> FALSE]
    /\ initialized.results[2] = [name |-> providers[2].name, value |-> TRUE]

-----------------------------------------------------------------------------
(* Properties of provider.execute *)

PromptTooLong(result) ==
    /\ result.threw
    /\ result.error.class = "ValidationError"
    /\ result.error.message[1] = "Prompt exceeds maximum length of "

\* C17: with security.maxPromptLength configured to L, execute accepts a
\* prompt of L characters and rejects a prompt of L + 1 characters with
\* ValidationError before the backend is called; without a configured
\* value L is 100000.
C17_ConfiguredPromptBound ==
    executed.impl # "none" =>
        IF executed.request.prompt.len <= config.maxPromptLength
        THEN ~PromptTooLong(executed.result)
        ELSE PromptTooLong(executed.result) /\ executed.result.net = <<>>

GenerateOps ==
    {"ollama.generate", "gemini.generate", "openai.generate", "anthropic.generate",
     "llamaCpp.generate"}

\* execute went as far as the backend's generation call
Generated(result) == \E i \in DOMAIN result.net : result.net[i] \in GenerateOps

\* C18: for every provider, execute rejects with ValidationError, without
\* making the generation call, a model that after alias resolution is the
\* empty string or is not in the provider's current listModels() result.
C18_UnlistedModelRejected ==
    executed.impl # "none" /\ executed.request.model.type = "string" =>
        LET listed == listModels(executed.impl, config, executed.env)
            model == IF executed.impl = "ollama"
                     THEN resolveModel(config.models, executed.request.model)
                     ELSE executed.request.model
        IN  ~listed.threw /\ (model.s = "" \/ ~Contains(listed.models, model.s)) =>
                /\ executed.result.threw
                /\ executed.result.error.class = "ValidationError"
                /\ ~Generated(executed.result)

\* C19: for every provider, a backend reply that reports success with empty
\* text makes execute fail with ProviderError; execute never returns a
\* Response whose text is empty.
C19_EmptyReplyIsProviderError ==
    executed.impl # "none" =>
        /\ executed.env.gen = "empty" /\ Generated(executed.result) =>
              executed.result.threw /\ executed.result.error.class = "ProviderError"
        /\ ~executed.result.threw => executed.result.response.text # ""

\* C20: for every provider, an execute whose generation call is still in
\* flight when the provider's configured timeout elapses fails with
\* TimeoutError carrying the configured timeout.
C20_TimeoutIsTimeoutError ==
    executed.impl # "none" /\ executed.env.gen = "timeout" /\ Generated(executed.result) =>
        /\ executed.result.threw
        /\ executed.result.error.class = "TimeoutError"
        /\ \E i \in DOMAIN executed.result.error.message :
              executed.result.error.message[i] = ToString(config.timeout[executed.impl])

\* C23: at startup, an enabled provider whose constructor raises (openai or
\* anthropic with no API key) is not registered, every other enabled provider
\* is registered, and startup goes on to serve.
C23_ConstructionFailureIsPerProvider ==
    phase \in {"serving", "responded"} =>
        \A i \in DOMAIN Impls :
            Registered(NameOf(Impls[i])) <=>
                /\ config.enabled[Impls[i]]
                /\ Impls[i] \in {"openai", "anthropic"} => config.apiKey[Impls[i]]

\* startup met openai enabled with no key, and llamaCpp, whose block comes
\* later, is registered
C23_Witness ==
    /\ phase = "serving"
    /\ config.enabled["openai"] /\ ~config.apiKey["openai"]
    /\ ~Registered(openai)
    /\ Registered(ollama) /\ Registered(llamaCpp)

\* C24: a list_<provider>_models call never creates a HistoryEntry: whether
\* listModels returns or raises, the ledger and the history file are after
\* the call what they were before it.
C24_ListCallRecordsNothing ==
    [][phase = "serving" /\ phase' = "responded" /\ ListShape(last'.name) =>
          /\ entries' = entries
          /\ fileLines' = fileLines
          /\ last'.recorded = NotRecorded]_vars

\* a list call whose listModels raised, answered by a server that keeps a
\* ledger with an entry in it and a history file
C24_Witness ==
    /\ phase = "responded"
    /\ ListShape(last.name)
    /\ last.listed.status = "raised"
    /\ config.historyEnabled /\ config.historyFile
    /\ entries # <<>>

\* C25: getRecent(n) returns the n most recent entries of the ledger in
\* recording order, all of them when fewer than n exist, so never more than
\* n entries; the call changes neither the ledger nor the file.
C25_GetRecentReturnsLastN ==
    [][recent'.asked /\ ~recent.asked =>
          LET n == recent'.count
              k == Min(n, Len(entries))
          IN  /\ recent'.result = SubSeq(entries, Len(entries) - k + 1, Len(entries))
              /\ Len(recent'.result) <= n
              /\ entries' = entries
              /\ fileLines' = fileLines]_vars

\* the use calls whose execute has finished, in the order they finished
FinishedCalls ==
    [k \in 1..Cardinality({j \in Callers : inflight[j].finished > 0}) |->
        CHOOSE j \in Callers : inflight[j].finished = k]

\* entry e is the one of use call c
EntryOf(e, c) ==
    /\ e.provider = NameOf(c.impl)
    /\ SameValue(Get(e.request, "prompt"), c.args.prompt)
    /\ c.exec.status = "returned" =>
          /\ SameValue(Get(e, "response"), ResponseSnapshot(c.exec.response.text))
          /\ SameValue(Get(e, "error"), NoError)
    /\ c.exec.status = "raised" =>
          /\ SameValue(Get(e, "response"), NoResponse)
          /\ SameValue(Get(e, "error"), ErrorMessage(c.exec.error.message))

\* C26: when two use calls on one provider interleave at their awaits,
\* after both complete the ledger holds exactly one entry for each call, in
\* the order in which their execute calls finished, within the size bound.
C26_InterleavedUseCallsKeepBothEntries ==
    /\ inflight # <<>>
    /\ config.historyEnabled
    /\ \A i \in Callers : inflight[i].stage = "done"
    => LET kept == Min(Cardinality(Callers), maxEntries(config))
           dropped == Cardinality(Callers) - kept
       IN  /\ Len(entries) = kept
           /\ \A k \in 1..kept : EntryOf(entries[k], inflight[FinishedCalls[dropped + k]])
           /\ \A k \in 1..kept : \A j \in Callers :
                 j # FinishedCalls[dropped + k] => ~EntryOf(entries[k], inflight[j])

\* C27: an entry recorded while the load started by the constructor is in
\* flight is still in the ledger when the load has completed, after the
\* rehydrated entries.
C27_LoadKeepsLiveEntries ==
    [][load.state \in {"reading", "parsing"} /\ load'.state \in {"done", "absent", "failed"} =>
          LET n == Min(Len(calls), maxEntries(config))
          IN  /\ Len(entries') >= n
              /\ SameEntries(SliceLast(entries', n), SliceLast(calls, n))]_vars

\* history is enabled with a file and the load of the file has completed
Rehydrated ==
    /\ config.historyEnabled /\ config.historyFile
    /\ phase \in {"serving", "cleared", "asked"}
    /\ load.state \in {"done", "absent"}

\* the ledger is the last min(historyMaxEntries, k) of the k entries in the file
LedgerIsTailOfFile == SameEntries(entries, SliceLast(written, maxEntries(config)))

\* C29: with history enabled, a file configured and rehydration complete,
\* record and clear calls keep the ledger equal to the last
\* min(historyMaxEntries, k) of the k entries in the file, in order, as long
\* as no append to the file has failed.
C29_LedgerFollowsFile ==
    [][/\ Rehydrated /\ ~appendFailed /\ LedgerIsTailOfFile
       /\ Rehydrated' /\ ~appendFailed'
       => LedgerIsTailOfFile']_vars

\* C28: executeSafe always settles after its timeout: once the timeout has
\* fired, the returned promise eventually rejects, also for a child that
\* ignores SIGTERM.
C28_ExecuteSafeSettlesAfterTimeout ==
    (child.state # "none" /\ child.timedOut) ~>
        (child.state # "none" /\ child.promise = "rejected")

\* a provider for which initializeAll recorded false
ProbeFailedFor(n) ==
    \E k \in DOMAIN initialized.results :
        initialized.results[k].name = n /\ ~initialized.results[k].value

\* what holds of the started server whatever the probes answered
FailedProbeKeepsProvider ==
    /\ \A i \in DOMAIN Impls :
          Registered(NameOf(Impls[i])) <=>
              /\ config.enabled[Impls[i]]
              /\ Impls[i] \in {"openai", "anthropic"} => config.apiKey[Impls[i]]
    /\ \A n \in ProviderNameSet :
          ProbeFailedFor(n) =>
              /\ hasProvider(providers, n) /\ getProvider(providers, n).name = n
              /\ tools # <<>> =>
                    /\ \E i \in DOMAIN tools : tools[i].name = use_ \o n
                    /\ \E i \in DOMAIN tools : tools[i].name = list_ \o n \o _models
              /\ Responded /\ last.name = use_ \o n /\ last.args.present =>
                    last.exec.status # "notcalled"

\* C30: a provider whose startup probe failed stays registered: getProvider
\* returns it, generateMCPTools emits its two descriptors and a use call on
\* it reaches its execute; after startup the provider map never changes.
C30_FailedProbeDoesNotUnregister ==
    [][/\ phase # "startup" => providers' = providers
       /\ FailedProbeKeepsProvider']_vars

\* the probe of ollama raised at startup; its tools were listed and a use
\* call on it was answered by its execute
C30_Witness ==
    /\ Responded
    /\ initialized.ran /\ initialized.probes[1] = "raises"
    /\ ProbeFailedFor(ollama)
    /\ tools # <<>>
    /\ last.name = use_ \o ollama
    /\ last.exec.status = "returned"

\* C22: for every provider, a supplied system prompt that contains a null
\* byte or is longer than 10 000 characters is rejected with ValidationError
\* before any backend operation is attempted.
C22_SystemPromptValidated ==
    /\ executed.impl # "none"
    /\ executed.request.system.type = "string"
    /\ executed.request.system.nul \/ executed.request.system.len > DefaultMaxSystemLength
    => /\ executed.result.threw
       /\ executed.result.error.class = "ValidationError"
       /\ executed.result.net = <<>>

\* the backend of the probed provider cannot be reached, or it rejects the
\* configured credentials
ProbeFailed(impl, env) ==
    CASE impl = "ollama" -> env.list = "fail"
      [] impl = "gemini" -> env.gen = "unreachable"
      [] impl = "openai" -> env.list = "fail"
      [] impl = "anthropic" -> env.gen \in {"status401", "unreachable"}
      [] impl = "llamaCpp" -> env.health = "throws" /\ env.gen = "unreachable"

\* the request that the probe of the provider makes was answered with success
ProbeSucceeded(impl, env) ==
    CASE impl = "ollama" -> env.list = "ok"
      [] impl = "gemini" -> env.gen \in {"text", "empty"}
      [] impl = "openai" -> env.list = "ok"
      [] impl = "anthropic" -> env.gen \in {"text", "empty"}
      [] impl = "llamaCpp" -> env.health = "ok" \/ (env.health = "throws" /\ env.gen = "text")

\* C21: for every provider, validateConfig never raises; it returns false
\* whenever the backend is unreachable or rejects the credentials, and true
\* only when the probe succeeded.
C21_ValidateConfigReportsProbe ==
    validated.impl # "none" =>
        /\ ~validated.result.threw
        /\ ProbeFailed(validated.impl, validated.env) => validated.result.value = FALSE
        /\ validated.result.value = TRUE => ProbeSucceeded(validated.impl, validated.env)

-----------------------------------------------------------------------------
(* Properties of tool listing and parsing *)

WasParsed == parsed.threw \/ parsed.action # "none"

\* C8: parsing fails for every tool name that has neither the shape
\* use_<name> nor the shape list_<name>_models, list_models included.
C8_OtherShapesFailToParse ==
    WasParsed /\ ~UseShape(toolName) /\ ~ListShape(toolName) => parsed.threw

\* the model list a provider's use descriptor enumerates: none when its
\* listModels fails
EnumeratedModels(provider, cfg, outcome) ==
    LET r == listModels(provider.impl, cfg, [list |-> outcome, gen |-> "text", append |-> "ok"])
    IN  IF r.threw THEN <<>> ELSE r.models

\* descriptor i of the listing: two per provider, in registry order
ExpectedDescriptor(i, outcome) ==
    LET provider == providers[(i + 1) \div 2]
    IN  IF i % 2 = 1
        THEN [name |-> use_ \o provider.name,
              enum |-> EnumeratedModels(provider, config, outcome),
              system |-> provider.impl \in {"ollama", "openai", "anthropic"},
              required |-> <<"model", "prompt">>]
        ELSE [name |-> list_ \o provider.name \o _models,
              enum |-> <<>>,
              system |-> FALSE,
              required |-> <<>>]

\* C15: generateMCPTools emits, per registered provider and in registry
\* order, the use descriptor and the list descriptor and nothing else; a
\* provider whose listModels fails has a use descriptor that enumerates no
\* models, and the descriptors of every provider are still emitted.
C15_TwoDescriptorsPerProvider ==
    tools # <<>> =>
        \E outcome \in ListOutcomes :
            /\ Len(tools) = 2 * Len(providers)
            /\ \A i \in DOMAIN tools : tools[i] = ExpectedDescriptor(i, outcome)

\* all five providers registered, the listModels of ollama failing
C15_Witness ==
    /\ Len(providers) = 5
    /\ Len(tools) = 10
    /\ tools[1].name = use_ \o ollama
    /\ tools[1].enum = <<>>
    /\ tools[2].name = list_ \o ollama \o _models
    /\ tools[3].enum # <<>>

\* C9: for every registered provider P the two names generateMCPTools emits
\* parse back to (P.name, use) and (P.name, list), and the registry lookup of
\* the parsed name returns P.
C9_GenerateAndParseAreInverse ==
    tools # <<>> =>
        /\ Len(tools) = 2 * Len(providers)
        /\ \A k \in DOMAIN providers :
              LET u == parseToolName(tools[2 * k - 1].name)
                  l == parseToolName(tools[2 * k].name)
              IN  /\ ~u.threw /\ u.provider = providers[k].name /\ u.action = "use"
                  /\ ~l.threw /\ l.provider = providers[k].name /\ l.action = "list"
                  /\ hasProvider(providers, u.provider)
                  /\ getProvider(providers, u.provider) = providers[k]
                  /\ getProvider(providers, l.provider) = providers[k]
        /\ \A i \in DOMAIN tools :
              toolName = tools[i].name /\ WasParsed =>
                  /\ ~parsed.threw
                  /\ parsed.action = (IF i % 2 = 1 THEN "use" ELSE "list")
                  /\ parsed.provider = providers[(i + 1) \div 2].name

C9_Witness ==
    /\ Len(providers) = 5
    /\ Len(tools) = 10
    /\ toolName = tools[10].name
    /\ toolName = list_ \o llamaCpp \o _models
    /\ parsed = [threw |-> FALSE, provider |-> llamaCpp, action |-> "list"]

=============================================================================
